---- MODULE Spec2Model ----
(***************************************************************************)
(* The tool-calling agents of lang-sandbox: the StateGraph agent of        *)
(* src/graph.ts (llmCall <-> toolNode, routed by shouldContinue) and the   *)
(* functional agent of src/functional.ts (entrypoint with a while loop     *)
(* over the tasks callLlm and callTool).  The model provider is a          *)
(* deterministic stub: a function of the messages it is sent.              *)
(* Also the walks of the classification graph of src/unnamed/part_000      *)
(* (with the fan-out stage enrichData) and of the document-analysis graph  *)
(* of src/devin-mcp-graph.ts, whose external calls return or throw.        *)
(***************************************************************************)
EXTENDS Integers, Sequences, FiniteSets, TLC

(* ------------------------------ bounds --------------------------------- *)

\* Largest finite number of tool-call-bearing responses of a stub model.
MaxK == 3

\* Largest number of tool calls carried by one ai message.
MaxCalls == 2

\* Model calls after which a run of the functional agent is no longer
\* followed (its while loop has no bound of its own), when the run is
\* followed alone.
MaxFCalls == 27

\* Largest finite k, and the model calls a functional run is followed
\* for, when two invokes of one agent are compared.
TwoK == 1
TwoFCalls == 2

\* Latest model call that a failing stub model throws on.
MaxFail == 2

\* Invokes of the weather agent that are followed, and the model calls
\* of one of them that may ask for a tool.
MaxTurns == 3
MaxWeatherCalls == 1

\* Calls of initMCPClient that one caller makes.
MaxInitCalls == 2

\* The walks or runs that can be in flight together.
Runs == {1, 2}

(* ----------------------------- messages -------------------------------- *)

START == "__start__"
END == "__end__"

NoId == <<>>

Msg(role, content, tool_calls, tool_call_id) ==
    [role |-> role, content |-> content, tool_calls |-> tool_calls,
     tool_call_id |-> tool_call_id]

NoMsg == Msg("none", "", <<>>, NoId)

HumanMessage(content) == Msg("human", content, <<>>, NoId)

SystemMessage(content) == Msg("system", content, <<>>, NoId)

AIMessage(content, tool_calls) == Msg("ai", content, tool_calls, NoId)

ToolMessage(content, tool_call_id) == Msg("tool", content, <<>>, tool_call_id)

\* An argument value as zod sees it: its JavaScript type and its value.
Num(n) == [t |-> "number", v |-> n]
Str == [t |-> "string", v |-> 0]

ToolCall(id, name, a, b) == [id |-> id, name |-> name, args |-> [a |-> a, b |-> b]]

SystemPrompt ==
    SystemMessage("You are a helpful assistant tasked with performing arithmetic on a set of inputs.")

Last(s) == s[Len(s)]

IsPrefix(s, t) == Len(s) <= Len(t) /\ SubSeq(t, 1, Len(s)) = s

(* ------------------------------- tools --------------------------------- *)

Digits == <<"0", "1", "2", "3", "4", "5", "6", "7", "8", "9">>

\* The content of a ToolMessage made from a number the tool returned:
\* its decimal text (non-negative integers).
RECURSIVE DecStr(_)
DecStr(n) == IF n < 10 THEN Digits[n + 1]
             ELSE DecStr(n \div 10) \o Digits[(n % 10) + 1]

\* add with the operator of multiply.
add_times(a, b) == a * b

add(a, b) == a + b

multiply(a, b) == a * b

\* a / b of JavaScript, for the arguments of the catalogue (b divides a).
divide(a, b) == a \div b

toolsByName == {"add", "multiply", "divide"}

ToolBody(name, a, b) ==
    CASE name = "add" -> add(a, b)
      [] name = "multiply" -> multiply(a, b)
      [] name = "divide" -> divide(a, b)

\* The zod schema of the three tools: a and b are numbers.
SchemaOk(args) == args.a.t = "number" /\ args.b.t = "number"

\* tool.invoke(toolCall) on toolsByName[toolCall.name]: throws a TypeError
\* when the name is not a key of toolsByName, throws when the arguments do
\* not parse against the schema (the body is then not run), and otherwise
\* returns the ToolMessage of the body's result, tagged with the call's id.
ToolInvoke(toolCall) ==
    IF toolCall.name \notin toolsByName
    THEN [ok |-> FALSE, error |-> "TypeError", msg |-> NoMsg]
    ELSE IF ~SchemaOk(toolCall.args)
    THEN [ok |-> FALSE, error |-> "ToolInputParsingException", msg |-> NoMsg]
    ELSE [ok |-> TRUE, error |-> "",
          msg |-> ToolMessage(DecStr(ToolBody(toolCall.name, toolCall.args.a.v,
                                              toolCall.args.b.v)),
                              toolCall.id)]

(* ---------------------------- the stub model --------------------------- *)

\* Marks a stub model that answers every call with tool calls.
Forever == -1

\* The calls a stub model can ask for: name and arguments.
Catalogue ==
    { [name |-> "add", a |-> Num(3), b |-> Num(4)],
      [name |-> "divide", a |-> Num(8), b |-> Num(4)],
      [name |-> "add", a |-> Str, b |-> Num(4)],
      [name |-> "pow", a |-> Num(2), b |-> Num(3)] }

CallSeqs == UNION { [1..n -> Catalogue] : n \in 1..MaxCalls }

\* A stub model: it answers its first k calls (every call, for Forever)
\* with an ai message carrying the calls of `calls`, and later calls with
\* a plain ai message.  When fail is not 0 the call number fail throws
\* (the provider is unreachable, the key is rejected) instead of answering.
Scripts ==
    { [k |-> 0, calls |-> <<>>, fail |-> 0] } \cup
    { [k |-> k, calls |-> c, fail |-> 0] :
          k \in (1..MaxK) \cup {Forever}, c \in CallSeqs } \cup
    { [k |-> Forever, calls |-> c, fail |-> n] : n \in 1..MaxFail, c \in CallSeqs }

\* The initial transcripts.
Inputs ==
    { <<>>,
      << HumanMessage("Add 3 and 4.") >>,
      << HumanMessage("Hi"), AIMessage("Hello", <<>>), HumanMessage("Add 3 and 4.") >> }

RECURSIVE CountCalling(_)
\* Number of ai messages of a transcript that carry tool calls.
CountCalling(msgs) ==
    IF msgs = <<>> THEN 0
    ELSE CountCalling(SubSeq(msgs, 1, Len(msgs) - 1))
         + (IF Last(msgs).role = "ai" /\ Len(Last(msgs).tool_calls) > 0 THEN 1 ELSE 0)

\* modelWithTools.invoke(messages) of the stub sc throws.
ModelFails(sc, msgs) == sc.fail # 0 /\ CountCalling(msgs) + 1 = sc.fail

\* modelWithTools.invoke(messages) of the stub sc: a function of the
\* messages it is sent.  A plain answer repeats the last tool result, if
\* the transcript ends with one.
ModelInvoke(sc, msgs) ==
    LET n == CountCalling(msgs) IN
    IF sc.k = Forever \/ n < sc.k
    THEN AIMessage("", [p \in 1..Len(sc.calls) |->
                          ToolCall(<<n + 1, p>>, sc.calls[p].name,
                                   sc.calls[p].a, sc.calls[p].b)])
    ELSE AIMessage(IF msgs # <<>> /\ Last(msgs).role = "tool"
                   THEN Last(msgs).content ELSE "Hello", <<>>)

(* ------------------------- the StateGraph agent ------------------------ *)

\* The recursion limit of a walk invoked without a configuration: the
\* number of node executions after which the executor gives up.
RecursionLimit == 25

\* A channel that overwrites: the update replaces the transcript.
messagesStateReducer_replace(left, right) == right

\* The messages channel of MessagesAnnotation: an update is appended.
messagesStateReducer(left, right) == left \o right

\* llmCall: the model's answer to the system prompt followed by the
\* transcript, as the one message of the update.
\* A throw of the model call is not caught: the node fails with it.
\* An llmCall that returns the system prompt together with the response.
llmCall_withPrompt(sc, messages) ==
    IF ModelFails(sc, <<SystemPrompt>> \o messages)
    THEN [ok |-> FALSE, messages |-> <<>>]
    ELSE [ok |-> TRUE,
          messages |-> << SystemPrompt, ModelInvoke(sc, <<SystemPrompt>> \o messages) >>]

llmCall(sc, messages) ==
    IF ModelFails(sc, <<SystemPrompt>> \o messages)
    THEN [ok |-> FALSE, messages |-> <<>>]
    ELSE [ok |-> TRUE, messages |-> << ModelInvoke(sc, <<SystemPrompt>> \o messages) >>]

\* A loop that returns after its first iteration.
InvokeAll_firstOnly(toolCalls) ==
    IF toolCalls = <<>> THEN [ok |-> TRUE, result |-> <<>>]
    ELSE LET observation == ToolInvoke(toolCalls[1])
         IN [ok |-> observation.ok,
             result |-> IF observation.ok THEN <<observation.msg>> ELSE <<>>]

RECURSIVE InvokeAll(_)
\* The loop of toolNode over the tool calls, in order: the observations
\* pushed so far, and whether an invoke threw (the loop stops there).
InvokeAll(toolCalls) ==
    IF toolCalls = <<>> THEN [ok |-> TRUE, result |-> <<>>]
    ELSE LET before == InvokeAll(SubSeq(toolCalls, 1, Len(toolCalls) - 1))
             observation == ToolInvoke(Last(toolCalls))
         IN IF ~before.ok THEN before
            ELSE IF ~observation.ok THEN [ok |-> FALSE, result |-> before.result]
            ELSE [ok |-> TRUE, result |-> Append(before.result, observation.msg)]

\* A toolNode that never pushes an observation.
toolNode_noPush(messages) == [ok |-> TRUE, messages |-> <<>>]

\* A toolNode that catches what an invoke throws and returns the
\* observations pushed before it.
toolNode_catch(messages) ==
    IF messages = <<>> \/ Last(messages).role # "ai"
    THEN [ok |-> TRUE, messages |-> <<>>]
    ELSE [ok |-> TRUE, messages |-> InvokeAll(Last(messages).tool_calls).result]

\* toolNode: nothing when the last message is missing or not an ai
\* message; otherwise one observation for each tool call of it.
toolNode(messages) ==
    IF messages = <<>> \/ Last(messages).role # "ai"
    THEN [ok |-> TRUE, messages |-> <<>>]
    ELSE LET r == InvokeAll(Last(messages).tool_calls)
         IN [ok |-> r.ok, messages |-> r.result]

\* A test of tool_calls instead of tool_calls.length: an empty array is
\* truthy, so every ai message routes to toolNode.
shouldContinue_truthy(messages) ==
    IF messages = <<>> \/ Last(messages).role # "ai" THEN END ELSE "toolNode"

\* shouldContinue: toolNode when the last message is an ai message that
\* carries tool calls, END otherwise.
shouldContinue(messages) ==
    IF messages = <<>> \/ Last(messages).role # "ai" THEN END
    ELSE IF Len(Last(messages).tool_calls) > 0 THEN "toolNode"
    ELSE END

\* An edge toolNode -> END in place of toolNode -> llmCall.
NextNode_toolEnd(node, messages) ==
    CASE node = START -> "llmCall"
      [] node = "llmCall" -> shouldContinue(messages)
      [] node = "toolNode" -> END

\* An edge toolNode -> toolNode in place of toolNode -> llmCall.
NextNode_toolLoop(node, messages) ==
    CASE node = START -> "llmCall"
      [] node = "llmCall" -> shouldContinue(messages)
      [] node = "toolNode" -> "toolNode"

\* The edges of the agent: START -> llmCall, llmCall -> shouldContinue,
\* toolNode -> llmCall.
NextNode(node, messages) ==
    CASE node = START -> "llmCall"
      [] node = "llmCall" -> shouldContinue(messages)
      [] node = "toolNode" -> "llmCall"

RunNode(node, sc, messages) ==
    CASE node = "llmCall" -> llmCall(sc, messages)
      [] node = "toolNode" -> toolNode(messages)

(* ------------------------ the functional agent ------------------------- *)

\* The task callLlm: the model's answer to the system prompt followed by
\* the messages.
callLlm(sc, messages) == ModelInvoke(sc, <<SystemPrompt>> \o messages)

\* The task callLlm rejects: the model call threw.
callLlmRejects(sc, messages) == ModelFails(sc, <<SystemPrompt>> \o messages)

\* The task callTool.
callTool(toolCall) == ToolInvoke(toolCall)

\* addMessages(left, right) on messages with distinct ids.
addMessages(left, right) == left \o right

\* The value the entrypoint returns once the loop is left: the variable
\* messages, to which the last model response was never added.
AgentReturn(messages, modelResponse) == messages

(* ------------------------- the graphs as built ------------------------- *)

\* A destination list given to addConditionalEdges: every label is the
\* name of its destination.
DestinationList(names) == [label \in names |-> label]

\* A graph as the builder calls describe it: the nodes of addNode, the
\* edges of addEdge as pairs, and for each addConditionalEdges its
\* source, its routing function and its mapping from labels to
\* destinations.
toolCallingGraph ==
    [nodes |-> {"llmCall", "toolNode"},
     edges |-> { <<START, "llmCall">>, <<"toolNode", "llmCall">> },
     branches |-> { [source |-> "llmCall", path |-> "shouldContinue",
                     ends |-> DestinationList({"toolNode", END})] }]

\* The classification graph with the edge enrichData -> summarizeResults
\* left out.
classificationGraph_noJoinEdge ==
    [nodes |-> {"classifyInput", "processMath", "processText", "processData",
                "enrichData", "summarizeResults"},
     edges |-> { <<START, "classifyInput">>,
                 <<"processMath", "enrichData">>,
                 <<"processText", "enrichData">>,
                 <<"processData", "enrichData">>,
                 <<"summarizeResults", END>> },
     branches |-> { [source |-> "classifyInput", path |-> "routeByCategory",
                     ends |-> DestinationList({"processMath", "processText",
                                               "processData", "enrichData"})] }]

\* The classification graph with processMath wired past enrichData.
classificationGraph_mathSkipsEnrich ==
    [nodes |-> {"classifyInput", "processMath", "processText", "processData",
                "enrichData", "summarizeResults"},
     edges |-> { <<START, "classifyInput">>,
                 <<"processMath", "summarizeResults">>,
                 <<"processText", "enrichData">>,
                 <<"processData", "enrichData">>,
                 <<"enrichData", "summarizeResults">>,
                 <<"summarizeResults", END>> },
     branches |-> { [source |-> "classifyInput", path |-> "routeByCategory",
                     ends |-> DestinationList({"processMath", "processText",
                                               "processData", "enrichData"})] }]

classificationGraph ==
    [nodes |-> {"classifyInput", "processMath", "processText", "processData",
                "enrichData", "summarizeResults"},
     edges |-> { <<START, "classifyInput">>,
                 <<"processMath", "enrichData">>,
                 <<"processText", "enrichData">>,
                 <<"processData", "enrichData">>,
                 <<"enrichData", "summarizeResults">>,
                 <<"summarizeResults", END>> },
     branches |-> { [source |-> "classifyInput", path |-> "routeByCategory",
                     ends |-> DestinationList({"processMath", "processText",
                                               "processData", "enrichData"})] }]

\* The document-analysis graph entered at fetchWikiContents.
documentAnalysisGraph_entry ==
    [nodes |-> {"fetchWikiStructure", "fetchWikiContents", "answerQuestion",
                "analyzeInsights", "generateSummary"},
     edges |-> { <<START, "fetchWikiContents">>,
                 <<"fetchWikiContents", "analyzeInsights">>,
                 <<"answerQuestion", "generateSummary">>,
                 <<"generateSummary", END>> },
     branches |-> { [source |-> "fetchWikiStructure", path |-> "checkError",
                     ends |-> [continue |-> "fetchWikiContents", end |-> END]],
                    [source |-> "analyzeInsights", path |-> "shouldAnswerQuestion",
                     ends |-> [answer |-> "answerQuestion",
                               skip |-> "generateSummary"]] }]

\* The document-analysis graph with generateSummary wired back to
\* fetchWikiStructure.
documentAnalysisGraph_cycle ==
    [nodes |-> {"fetchWikiStructure", "fetchWikiContents", "answerQuestion",
                "analyzeInsights", "generateSummary"},
     edges |-> { <<START, "fetchWikiStructure">>,
                 <<"fetchWikiContents", "analyzeInsights">>,
                 <<"answerQuestion", "generateSummary">>,
                 <<"generateSummary", "fetchWikiStructure">> },
     branches |-> { [source |-> "fetchWikiStructure", path |-> "checkError",
                     ends |-> [continue |-> "fetchWikiContents", end |-> END]],
                    [source |-> "analyzeInsights", path |-> "shouldAnswerQuestion",
                     ends |-> [answer |-> "answerQuestion",
                               skip |-> "generateSummary"]] }]

documentAnalysisGraph ==
    [nodes |-> {"fetchWikiStructure", "fetchWikiContents", "answerQuestion",
                "analyzeInsights", "generateSummary"},
     edges |-> { <<START, "fetchWikiStructure">>,
                 <<"fetchWikiContents", "analyzeInsights">>,
                 <<"answerQuestion", "generateSummary">>,
                 <<"generateSummary", END>> },
     branches |-> { [source |-> "fetchWikiStructure", path |-> "checkError",
                     ends |-> [continue |-> "fetchWikiContents", end |-> END]],
                    [source |-> "analyzeInsights", path |-> "shouldAnswerQuestion",
                     ends |-> [answer |-> "answerQuestion",
                               skip |-> "generateSummary"]] }]

\* The graphs the repository builds.
Graphs == {toolCallingGraph, classificationGraph, documentAnalysisGraph}

\* The destinations a branch can lead to.
Ends(branch) == { branch.ends[label] : label \in DOMAIN branch.ends }

\* Every pair (from, to) such that the graph can go from one to the other
\* in one step, by an edge or by a label of a branch.
Successors(g) ==
    g.edges \cup
    UNION { { <<b.source, d>> : d \in Ends(b) } : b \in g.branches }

RECURSIVE ReachableFrom(_, _)
\* The nodes (START and END included) the graph can get to from those of
\* `from` in zero or more steps.
ReachableFrom(g, from) ==
    LET more == from \cup { e[2] : e \in { x \in Successors(g) : x[1] \in from } }
    IN IF more = from THEN from ELSE ReachableFrom(g, more)

(* ------------------------ state of a graph walk ------------------------ *)

\* The state container of a walk: a function from the channels that have
\* a value to their values.  Every channel of the two GraphState
\* annotations keeps the last value written: an update replaces the
\* channels it names and leaves the others alone.
\* A merge that replaces the state by the update.
Merge_replaceAll(s, update) == update

Merge(s, update) ==
    [c \in DOMAIN s \cup DOMAIN update |->
        IF c \in DOMAIN update THEN update[c] ELSE s[c]]

\* The result of a node that returns an update, and of one that throws.
Returns(update) == [ok |-> TRUE, update |-> update]
Throws == [ok |-> FALSE, update |-> <<>>]

\* The outcome of an external call: a value, or an exception with its
\* message.
Value(v) == [ok |-> TRUE, value |-> v, message |-> ""]
Thrown(message) == [ok |-> FALSE, value |-> "", message |-> message]

\* The messages an exception of an external call can carry.
Messages == {"", "fetch failed"}

(* --------------------- the document-analysis graph --------------------- *)

\* A string as the sequence of its characters, where the code looks into it.
Whitespace == {" ", "\t", "\n"}

RECURSIVE trim(_)
\* String.prototype.trim.
trim(str) ==
    IF str = <<>> THEN str
    ELSE IF Head(str) \in Whitespace THEN trim(Tail(str))
    ELSE IF Last(str) \in Whitespace THEN trim(SubSeq(str, 1, Len(str) - 1))
    ELSE str

\* What readWikiStructure, readWikiContents and askQuestion can do: return
\* the parsed result of the MCP tool, or throw.
readWikiStructure ==
    { Value([topics |-> <<"Overview", "API">>]), Value([topics |-> <<>>]) }
    \cup { Thrown(m) : m \in Messages }

readWikiContents ==
    { Value("# Overview"), Value("") } \cup { Thrown(m) : m \in Messages }

askQuestion ==
    { Value("It is a UI library.") } \cup { Thrown(m) : m \in Messages }

\* What model.invoke can do in generateSummary and summarizeResults.
SummaryModel == { Value("summary") } \cup { Thrown(m) : m \in Messages }

\* The value of wikiStructure after a failed fetch.
Null == [null |-> TRUE]

fetchWikiStructureNode(s, out) ==
    IF out.ok THEN Returns([wikiStructure |-> out.value])
    ELSE Returns([error |-> out.message, wikiStructure |-> Null])

fetchWikiContentsNode(s, out) ==
    IF out.ok THEN Returns([wikiContents |-> out.value])
    ELSE Returns([error |-> out.message, wikiContents |-> ""])

answerQuestionNode(s, out) ==
    IF out.ok THEN Returns([answer |-> out.value])
    ELSE Returns([error |-> out.message, answer |-> ""])

\* state.wikiStructure?.topics?.length || 0
TopicCount(s) ==
    IF "wikiStructure" \in DOMAIN s /\ "topics" \in DOMAIN s.wikiStructure
    THEN Len(s.wikiStructure.topics) ELSE 0

\* state.wikiContents?.length || 0
DocumentLength(s) ==
    IF "wikiContents" \in DOMAIN s THEN Len(s.wikiContents) ELSE 0

analyzeInsightsNode(s, out) ==
    Returns([insights |-> [topicCount |-> TopicCount(s),
                           documentLength |-> DocumentLength(s),
                           hasWiki |-> DocumentLength(s) > 0]])

\* A failure of the model call is caught and reported in the summary;
\* the error channel is not written.
generateSummaryNode(s, out) ==
    IF out.ok THEN Returns([summary |-> out.value])
    ELSE Returns([summary |-> "error: " \o out.message])

\* A checkError that only tests whether the channel has a value.
checkError_defined(s) ==
    IF "error" \in DOMAIN s THEN "end" ELSE "continue"

\* checkError: a missing error and an empty one are both falsy.
checkError(s) ==
    IF "error" \in DOMAIN s /\ s.error # "" THEN "end" ELSE "continue"

\* shouldAnswerQuestion without the trim of the question.
shouldAnswerQuestion_noTrim(s) ==
    IF "error" \in DOMAIN s /\ s.error # "" THEN "skip"
    ELSE IF "userQuestion" \in DOMAIN s /\ s.userQuestion # <<>> THEN "answer"
    ELSE "skip"

shouldAnswerQuestion(s) ==
    IF "error" \in DOMAIN s /\ s.error # "" THEN "skip"
    ELSE IF "userQuestion" \in DOMAIN s /\ s.userQuestion # <<>>
            /\ Len(trim(s.userQuestion)) > 0 THEN "answer"
    ELSE "skip"

(* ----------------------- the classification graph ---------------------- *)

\* What model.invoke can do in classifyInput: answer with a JSON object
\* (category and confidence, the latter in tenths; "" and 0 stand for a
\* missing or falsy member), answer with something that does not parse,
\* or throw.
ClassifierModel ==
    { Value([json |-> TRUE, category |-> c, confidence |-> n]) :
          c \in {"math", "text", "data", "unknown", "image", ""}, n \in {0, 9} }
    \cup { Value([json |-> FALSE, category |-> "", confidence |-> 0]) }
    \cup { Thrown(m) : m \in Messages }

\* What the model call of a processing node and the tool calls it asks
\* for can do: the contents of the tool results in order, or throw.
ProcessingModel ==
    { Value(<<>>), Value(<<"5">>), Value(<<"5", "25">>) }
    \cup { Thrown(m) : m \in Messages }

\* The inputs of runComplexGraph.
ClassificationInputs == {"2 + 3", "Summarize this paragraph, please."}

\* category = parsed.category || "unknown", confidence = parsed.confidence
\* || 0.5, and the same defaults when JSON.parse throws; a throw of the
\* model call is not caught.
classifyInputNode(s, out) ==
    IF ~out.ok THEN Throws
    ELSE LET parsed == out.value
         IN Returns([category |-> IF parsed.json /\ parsed.category # ""
                                  THEN parsed.category ELSE "unknown",
                     confidence |-> IF parsed.json /\ parsed.confidence # 0
                                    THEN parsed.confidence ELSE 5])

\* The content of the first tool result in place of the last.
ResponseText_first(results) == IF results = <<>> THEN "" ELSE results[1]

\* responseText: the content of the last tool result, "" without tool calls.
ResponseText(results) == IF results = <<>> THEN "" ELSE Last(results)

processMathNode(s, out) ==
    IF ~out.ok THEN Throws
    ELSE Returns([processed |-> TRUE, path |-> "math",
                  response |-> ResponseText(out.value)])

processTextNode(s, out) ==
    IF ~out.ok THEN Throws
    ELSE Returns([processed |-> TRUE, path |-> "text",
                  response |-> ResponseText(out.value)])

processDataNode(s, out) ==
    IF ~out.ok THEN Throws
    ELSE Returns([processed |-> TRUE, path |-> "data",
                  response |-> ResponseText(out.value)])

summarizeResultsNode(s, out) ==
    IF ~out.ok THEN Throws
    ELSE Returns([summary |-> out.value, timestamp |-> "now"])

\* The value read from a channel that has none.
Undefined == "<undefined>"

\* state.category
Category(s) == IF "category" \in DOMAIN s THEN s.category ELSE Undefined

\* A default case that returns the category as the label.
routeByCategory_category(s) ==
    CASE Category(s) = "math" -> "processMath"
      [] Category(s) = "text" -> "processText"
      [] Category(s) = "data" -> "processData"
      [] OTHER -> Category(s)

routeByCategory(s) ==
    CASE Category(s) = "math" -> "processMath"
      [] Category(s) = "text" -> "processText"
      [] Category(s) = "data" -> "processData"
      [] OTHER -> "enrichData"

\* The sub-tasks of enrichData, in the order of the array given to
\* Promise.all.
SubTasks == <<"sentiment", "complexity", "tags">>

\* An object literal: its properties in insertion order, each a pair of
\* key and value.
Object(key, value) == << <<key, value>> >>

Keys(obj) == { obj[i][1] : i \in 1..Len(obj) }

Property(obj, key) == obj[CHOOSE i \in 1..Len(obj) : obj[i][1] = key][2]

\* What sub-task p can do on the state s: return its object, or throw.
\* (Math.random decides the sentiment.  The bodies in the source have no
\* await and do not throw on a string input: they settle in declaration
\* order with a value.  The model lets every sub-task settle at any
\* moment, with its value or an exception, which covers those runs.)
SubTask(p, s) ==
    (CASE SubTasks[p] = "sentiment" ->
            { Value(Object("sentiment", v)) : v \in {"positive", "neutral"} }
       [] SubTasks[p] = "complexity" ->
            { Value(Object("complexity",
                           IF Len(s.input) > 20 THEN "high" ELSE "low")) }
       [] SubTasks[p] = "tags" ->
            { Value(Object("tags", <<"processed", s.category, "v1">>)) })
    \cup { Thrown("fetch failed") }

\* target[key] = value
SetProperty(target, key, value) ==
    IF key \in Keys(target)
    THEN [i \in 1..Len(target) |->
             IF target[i][1] = key THEN <<key, value>> ELSE target[i]]
    ELSE Append(target, <<key, value>>)

RECURSIVE AssignOne(_, _)
AssignOne(target, source) ==
    IF source = <<>> THEN target
    ELSE AssignOne(SetProperty(target, Head(source)[1], Head(source)[2]),
                   Tail(source))

RECURSIVE ObjectAssign(_, _)
\* Object.assign(target, ...sources): the properties of each source are
\* set on the target, sources from left to right.
ObjectAssign(target, sources) ==
    IF sources = <<>> THEN target
    ELSE ObjectAssign(AssignOne(target, Head(sources)), Tail(sources))

(* ------------------------- compile and routing ------------------------- *)

\* A compile that validates nothing.
compile_unchecked(g) == "ok"

\* compile: every edge starts at START or a registered node and ends at a
\* registered node or END, every conditional edge declares at least one
\* label, and no node is named START or END.
compile(g) ==
    IF /\ \A e \in g.edges :
             e[1] \in g.nodes \cup {START} /\ e[2] \in g.nodes \cup {END}
       /\ \A b \in g.branches :
             /\ b.source \in g.nodes
             /\ DOMAIN b.ends # {}
             /\ Ends(b) \subseteq g.nodes \cup {END}
       /\ g.nodes \cap {START, END} = {}
    THEN "ok" ELSE "ConfigurationError"

\* The routing function of a conditional edge, on the state s.
Route(path, s) ==
    CASE path = "shouldContinue" -> shouldContinue(s.messages)
      [] path = "checkError" -> checkError(s)
      [] path = "shouldAnswerQuestion" -> shouldAnswerQuestion(s)
      [] path = "routeByCategory" -> routeByCategory(s)

\* Marks a label that the mapping of its conditional edge does not have.
Unmapped == "<unmapped>"

\* The node that follows node n on the state s: the target of n's edge,
\* or the destination that the mapping of n's conditional edge gives for
\* the label its routing function returns.
Resolve(g, n, s) ==
    IF \E e \in g.edges : e[1] = n
    THEN (CHOOSE e \in g.edges : e[1] = n)[2]
    ELSE IF \E b \in g.branches : b.source = n
    THEN LET b == CHOOSE b \in g.branches : b.source = n
             label == Route(b.path, s)
         IN IF label \in DOMAIN b.ends THEN b.ends[label] ELSE Unmapped
    ELSE Unmapped

\* A conditional edge evaluated on the state the node received.
NextAfter_snapshot(g, n, snapshot, merged) == Resolve(g, n, snapshot)

\* The node that follows the completed node n: its edge or conditional
\* edge is resolved on the state after n's update was merged.
NextAfter(g, n, snapshot, merged) == Resolve(g, n, merged)

\* trace(message): one line on the console. A line is modelled by what
\* wrote it.
Trace(out, message) == Append(out, message)

\* traceEnter(name) and traceExit(name): a line each, the depth one up
\* after the first and one down before the second.
Enter(name) == "> " \o name
Exit(name) == "< " \o name

\* The lines a routing function writes when it is evaluated on state s:
\* checkError traces a detected error, shouldAnswerQuestion traces whether
\* there is a question unless there is an error, routeByCategory traces
\* the category.
RouteOutput(path, s) ==
    CASE path = "checkError" ->
             IF checkError(s) = "end" THEN <<"checkError">> ELSE <<>>
      [] path = "shouldAnswerQuestion" ->
             IF "error" \in DOMAIN s /\ s.error # "" THEN <<>>
             ELSE <<"shouldAnswerQuestion">>
      [] path = "routeByCategory" -> <<"routeByCategory">>
      [] OTHER -> <<>>

\* The lines written when the edge or conditional edge of node n is
\* resolved on state s.
ResolveOutput(g, n, s) ==
    IF \E b \in g.branches : b.source = n
    THEN RouteOutput((CHOOSE b \in g.branches : b.source = n).path, s)
    ELSE <<>>

\* What the external call of a node can do (analyzeInsights makes none).
External(n) ==
    CASE n = "fetchWikiStructure" -> readWikiStructure
      [] n = "fetchWikiContents" -> readWikiContents
      [] n = "answerQuestion" -> askQuestion
      [] n = "analyzeInsights" -> { Value("") }
      [] n = "generateSummary" -> SummaryModel
      [] n = "classifyInput" -> ClassifierModel
      [] n \in {"processMath", "processText", "processData"} -> ProcessingModel
      [] n = "summarizeResults" -> SummaryModel

\* The function registered for node n, on the state s, when its external
\* call does out.
Run(n, s, out) ==
    CASE n = "fetchWikiStructure" -> fetchWikiStructureNode(s, out)
      [] n = "fetchWikiContents" -> fetchWikiContentsNode(s, out)
      [] n = "answerQuestion" -> answerQuestionNode(s, out)
      [] n = "analyzeInsights" -> analyzeInsightsNode(s, out)
      [] n = "generateSummary" -> generateSummaryNode(s, out)
      [] n = "classifyInput" -> classifyInputNode(s, out)
      [] n = "processMath" -> processMathNode(s, out)
      [] n = "processText" -> processTextNode(s, out)
      [] n = "processData" -> processDataNode(s, out)
      [] n = "summarizeResults" -> summarizeResultsNode(s, out)

(* ----------------------------- the MCP client -------------------------- *)

\* The nodes of the document-analysis graph that call a DeepWiki tool,
\* each through initMCPClient.
McpNodes == {"fetchWikiStructure", "fetchWikiContents", "answerQuestion"}

\* The two analyses of main.
Analyses == <<"facebook/react", "vercel/next.js">>

\* Callers of initMCPClient whose calls can overlap.
Callers == {1, 2}

\* A caller that is not in initMCPClient and holds no client.
NoCall == [at |-> "idle", client |-> 0, connected |-> FALSE, calls |-> 0]

\* A catch block that leaves the global client as it is.
catch_keep(client) == client

\* The catch block of initMCPClient: the global client becomes null.
catch(client) == 0

\* MCPClient.disconnect: the connection of client c is closed.
disconnect(conns, c) == [conns EXCEPT ![c] = "closed"]

(* --------------------------- the weather agent ------------------------- *)

\* The thread ids a caller passes in configurable.thread_id, and the
\* user messages of main.
Threads == {"1", "2"}
UserMessages == <<"what is the weather outside?", "thank you!">>

\* getUserLocation with context.user_id "1", and getWeather.
getUserLocation == "Florida"
getWeather(city) == "It's always sunny in " \o city \o "!"

\* What the model of the weather agent can answer: a call of one of the
\* two tools, or a plain message.
WeatherResponses ==
    { AIMessage("", << [id |-> <<1, 1>>, name |-> "get_user_location",
                        args |-> [city |-> ""]] >>),
      AIMessage("", << [id |-> <<1, 1>>, name |-> "get_weather_for_location",
                        args |-> [city |-> "Florida"]] >>),
      AIMessage("It's sunny in Florida!", <<>>) }

\* The tool message for a call of the weather agent.
WeatherTool(toolCall) ==
    ToolMessage(IF toolCall.name = "get_user_location" THEN getUserLocation
                ELSE getWeather(toolCall.args.city),
                toolCall.id)

\* A memory with one slot for all threads.
load_anyThread(mem, thread) ==
    IF DOMAIN mem = {} THEN <<>> ELSE mem[CHOOSE t \in DOMAIN mem : TRUE]

\* load(thread_id): the transcript saved for the thread, nothing for a
\* thread that has none.
load(mem, thread) == IF thread \in DOMAIN mem THEN mem[thread] ELSE <<>>

\* save(thread_id, transcript)
save(mem, thread, transcript) ==
    [t \in DOMAIN mem \cup {thread} |-> IF t = thread THEN transcript ELSE mem[t]]

\* The weather agent between invokes.
NoInvoke ==
    [status |-> "idle", at |-> "", thread |-> "", question |-> "",
     loaded |-> <<>>, messages |-> <<>>, modelCalls |-> 0,
     reads |-> 0, writes |-> 0]

(* ------------------------------- state --------------------------------- *)

VARIABLES
    script,        \* the stub model of this execution
    input,         \* the initial transcript
    messages,      \* messages[w]: the messages channel of walk w
    next,          \* next[w]: the node walk w executes next
    steps,         \* steps[w]: node executions started by walk w
    status,        \* status[w]: idle, running, done or the error of walk w
    trace,         \* trace[w]: the nodes walk w completed, in order
    fMessages,     \* fMessages[f]: the variable messages of run f
    modelResponse, \* modelResponse[f]: the variable modelResponse of run f
    fpc,           \* fpc[f]: where run f is suspended
    pending,       \* pending[f]: positions of the callTool tasks in flight
    toolResults,   \* toolResults[f]: results of the callTool tasks, as completed
    fLlmCalls,     \* fLlmCalls[f]: callLlm tasks run f completed
    fToolCalls,    \* fToolCalls[f]: callTool tasks run f completed
    fResult,       \* fResult[f]: the list run f returned
    followed,      \* model calls a functional run is followed for
    graph,         \* the graph that was built
    compiled,      \* what compile made of it: ok or the error
    state,         \* the state container of the walk of that graph
    pointer,       \* the node the walk executes next
    wstatus,       \* idle, running, done or the error of the walk
    executed,      \* the nodes the walk completed, in order
    nsteps,        \* node executions the walk started
    outcomes,      \* the external calls of the walk and what they did
    inflight,      \* positions of the sub-tasks of enrichData in flight
    settled,       \* results of the sub-tasks of enrichData, as completed
    memory,        \* the checkpointer: thread id -> saved transcript
    weather,       \* the invoke of the weather agent in progress or just ended
    turns,         \* the invokes of the weather agent that ended, in order
    console,       \* the lines written by trace, by what wrote them
    traceDepth,    \* the indentation of the next trace line
    mcpClient,     \* the global MCP client: 0 for null, or its place in clients
    clients,       \* the connection of every MCPClient that was constructed
    mainpc,        \* where main of the document analysis is
    callers        \* callers of initMCPClient that overlap: where each is

gvars == <<messages, next, steps, status, trace>>

fvars == <<fMessages, modelResponse, fpc, pending, toolResults, fLlmCalls,
           fToolCalls, fResult>>

\* The walk of the classification or the document-analysis graph.
xvars == <<graph, compiled, state, pointer, wstatus, executed, nsteps,
           outcomes, inflight, settled>>

\* The weather agent and its memory.
evars == <<memory, weather, turns>>

\* The trace output.
tvars == <<console, traceDepth>>

\* The MCP client and the main that uses it.
mvars == <<mcpClient, clients, mainpc, callers>>

vars == <<script, input, followed, gvars, fvars, xvars, evars, tvars, mvars>>

\* The state after agent.invoke was called for the walks of G and the
\* runs of F, all on the same input with the same stub model of S.
InitWith(G, F, S, cap) ==
    /\ script \in S
    /\ followed = cap
    /\ input \in Inputs
    /\ messages = [w \in Runs |-> IF w \in G THEN input ELSE <<>>]
    /\ next = [w \in Runs |-> NextNode(START, input)]
    /\ steps = [w \in Runs |-> 0]
    /\ status = [w \in Runs |-> IF w \in G THEN "running" ELSE "idle"]
    /\ trace = [w \in Runs |-> <<>>]
    /\ fMessages = [f \in Runs |-> IF f \in F THEN input ELSE <<>>]
    /\ modelResponse = [f \in Runs |-> NoMsg]
    /\ fpc = [f \in Runs |-> IF f \in F THEN "start" ELSE "idle"]
    /\ pending = [f \in Runs |-> {}]
    /\ toolResults = [f \in Runs |-> <<>>]
    /\ fLlmCalls = [f \in Runs |-> 0]
    /\ fToolCalls = [f \in Runs |-> 0]
    /\ fResult = [f \in Runs |-> <<>>]

\* No walk of the classification or the document-analysis graph.
NoWalk ==
    /\ state = <<>>
    /\ pointer = START
    /\ wstatus = "idle"
    /\ executed = <<>>
    /\ nsteps = 0
    /\ outcomes = <<>>
    /\ inflight = {}
    /\ settled = <<>>

\* The weather agent is not invoked.
NoWeather ==
    /\ memory = <<>>
    /\ weather = NoInvoke
    /\ turns = <<>>

\* Nothing was traced.
NoOutput ==
    /\ console = <<>>
    /\ traceDepth = 0

\* main of the document analysis was not started and no MCP client made.
NoMain ==
    /\ mcpClient = 0
    /\ clients = <<>>
    /\ mainpc = [at |-> "idle", run |-> 0, calls |-> 0]
    /\ callers = [c \in Callers |-> NoCall]

\* The tool-calling graph was built and compiled.
AgentCompiled ==
    /\ graph = toolCallingGraph
    /\ compiled = compile(toolCallingGraph)
    /\ NoWalk
    /\ NoWeather
    /\ NoOutput
    /\ NoMain

\* One invoke of the graph agent and one of the functional agent.
Init == InitWith({1}, {1}, Scripts, MaxK + 1) /\ AgentCompiled

(* --------------------------- graph executor ---------------------------- *)

\* One step of walk w: the node runs on the current state; on success its
\* update is merged and the next node resolved on the merged state; on
\* failure the walk stops with the error.
NodeStep(w, node) ==
    /\ status[w] = "running"
    /\ next[w] = node
    /\ steps[w] < RecursionLimit
    /\ LET update == RunNode(node, script, messages[w])
           merged == messagesStateReducer(messages[w], update.messages)
           target == NextNode(node, merged)
       IN /\ steps' = [steps EXCEPT ![w] = @ + 1]
          /\ IF update.ok
             THEN /\ messages' = [messages EXCEPT ![w] = merged]
                  /\ trace' = [trace EXCEPT ![w] = Append(@, node)]
                  /\ next' = [next EXCEPT ![w] = target]
                  /\ status' = [status EXCEPT ![w] =
                                   IF target = END THEN "done" ELSE "running"]
             ELSE /\ status' = [status EXCEPT ![w] = "ExecutionError"]
                  /\ UNCHANGED <<messages, trace, next>>
    /\ UNCHANGED <<mvars, tvars, evars, xvars, script, input, followed, fvars>>

LlmCallStep(w) == NodeStep(w, "llmCall")

ToolNodeStep(w) == NodeStep(w, "toolNode")

\* The walk has used its recursion limit and END is not reached.
StepLimit(w) ==
    /\ status[w] = "running"
    /\ steps[w] >= RecursionLimit
    /\ status' = [status EXCEPT ![w] = "StepLimitExceeded"]
    /\ UNCHANGED <<mvars, tvars, evars, xvars, script, input, followed, messages, next, steps, trace, fvars>>

(* --------------------------- functional agent -------------------------- *)

\* Results collected as the tasks complete.
PromiseAll_completionOrder(results) == [i \in 1..Len(results) |-> results[i].msg]

\* The value of Promise.all over the callTool tasks: the result of each
\* task at the position of its tool call, whatever the order the tasks
\* completed in (results lists them in completion order).
\* The result of the task that completed first, alone.
PromiseAll_firstOnly(results) ==
    IF results = <<>> THEN <<>> ELSE <<results[1].msg>>

PromiseAll(results) ==
    [p \in 1..Len(results) |->
        results[CHOOSE i \in 1..Len(results) : results[i].p = p].msg]

\* The entrypoint starts: callLlm(messages) is dispatched and awaited.
F_Start(f) ==
    /\ fpc[f] = "start"
    /\ fpc' = [fpc EXCEPT ![f] = "awaitLlm"]
    /\ UNCHANGED <<mvars, tvars, evars, xvars, script, input, followed, gvars, fMessages, modelResponse, pending,
                   toolResults, fLlmCalls, fToolCalls, fResult>>

\* callLlm resolves: modelResponse is assigned and the loop tests it;
\* without tool calls the loop is left and messages returned, otherwise
\* one callTool task per tool call is dispatched and all are awaited.
F_LlmReturns(f) ==
    /\ fpc[f] = "awaitLlm"
    /\ fLlmCalls[f] < followed
    /\ fLlmCalls' = [fLlmCalls EXCEPT ![f] = @ + 1]
    /\ IF callLlmRejects(script, fMessages[f])
       THEN /\ fpc' = [fpc EXCEPT ![f] = "ExecutionError"]
            /\ UNCHANGED <<modelResponse, pending, toolResults, fResult>>
       ELSE LET response == callLlm(script, fMessages[f])
            IN /\ modelResponse' = [modelResponse EXCEPT ![f] = response]
               /\ IF Len(response.tool_calls) = 0
                  THEN /\ fResult' = [fResult EXCEPT ![f] =
                                         AgentReturn(fMessages[f], response)]
                       /\ fpc' = [fpc EXCEPT ![f] = "done"]
                       /\ UNCHANGED <<pending, toolResults>>
                  ELSE /\ pending' = [pending EXCEPT ![f] =
                                         1..Len(response.tool_calls)]
                       /\ toolResults' = [toolResults EXCEPT ![f] = <<>>]
                       /\ fpc' = [fpc EXCEPT ![f] = "awaitTools"]
                       /\ UNCHANGED fResult
    /\ UNCHANGED <<mvars, tvars, evars, xvars, script, input, followed, gvars, fMessages, fToolCalls>>

\* The callTool task of position p completes; a task that throws rejects
\* the Promise.all and with it the entrypoint.
F_ToolCompletes(f, p) ==
    /\ fpc[f] = "awaitTools"
    /\ p \in pending[f]
    /\ LET r == callTool(modelResponse[f].tool_calls[p])
       IN /\ fToolCalls' = [fToolCalls EXCEPT ![f] = @ + 1]
          /\ pending' = [pending EXCEPT ![f] = @ \ {p}]
          /\ IF r.ok
             THEN /\ toolResults' = [toolResults EXCEPT ![f] =
                                        Append(@, [p |-> p, msg |-> r.msg])]
                  /\ UNCHANGED fpc
             ELSE /\ fpc' = [fpc EXCEPT ![f] = "ExecutionError"]
                  /\ UNCHANGED toolResults
    /\ UNCHANGED <<mvars, tvars, evars, xvars, script, input, followed, gvars, fMessages, modelResponse, fLlmCalls,
                   fResult>>

\* Promise.all resolves: the response and the tool results are added to
\* messages and callLlm(messages) is dispatched and awaited.
F_Join(f) ==
    /\ fpc[f] = "awaitTools"
    /\ pending[f] = {}
    /\ fMessages' = [fMessages EXCEPT ![f] =
                        addMessages(@, <<modelResponse[f]>> \o PromiseAll(toolResults[f]))]
    /\ fpc' = [fpc EXCEPT ![f] = "awaitLlm"]
    /\ UNCHANGED <<mvars, tvars, evars, xvars, script, input, followed, gvars, modelResponse, pending, toolResults,
                   fLlmCalls, fToolCalls, fResult>>

(* ------------- walks of the document and classification graphs -------- *)

\* The entry of the log of external calls for what node n's call did.
Outcome(n, out) ==
    [node |-> n, ok |-> out.ok, value |-> out.value, message |-> out.message]

\* What becomes of the walk when the next node is target.
After(target) ==
    CASE target = END -> "done"
      [] target = Unmapped -> "UnmappedLabel"
      [] OTHER -> "running"

\* One step of the walk: node n runs on the current state, its external
\* call doing one of the things it can do; on success the update is
\* merged and the next node resolved on the merged state, on failure the
\* walk stops with the error.
Step(n) ==
    /\ wstatus = "running"
    /\ pointer = n
    /\ nsteps < RecursionLimit
    /\ \E out \in External(n) :
          LET r == Run(n, state, out)
              merged == Merge(state, r.update)
              target == NextAfter(graph, n, state, merged)
          IN /\ nsteps' = nsteps + 1
             /\ outcomes' = Append(outcomes, Outcome(n, out))
             /\ IF r.ok
                THEN /\ state' = merged
                     /\ executed' = Append(executed, n)
                     /\ pointer' = target
                     /\ wstatus' = After(target)
                     /\ console' = Trace(Trace(console, Enter(n)), Exit(n))
                                       \o ResolveOutput(graph, n, merged)
                     /\ traceDepth' = (traceDepth + 1) - 1
                ELSE /\ wstatus' = "ExecutionError"
                     /\ console' = Trace(console, Enter(n))
                     /\ traceDepth' = traceDepth + 1
                     /\ UNCHANGED <<state, executed, pointer>>
    /\ UNCHANGED <<mvars, evars, script, input, followed, gvars, fvars, graph, compiled,
                   inflight, settled>>

FetchWikiStructure == Step("fetchWikiStructure")
FetchWikiContents == Step("fetchWikiContents")
AnalyzeInsights == Step("analyzeInsights")
AnswerQuestion == Step("answerQuestion")
GenerateSummary == Step("generateSummary")
ClassifyInput == Step("classifyInput")
ProcessMath == Step("processMath")
ProcessText == Step("processText")
ProcessData == Step("processData")
SummarizeResults == Step("summarizeResults")

\* enrichData starts: its three sub-tasks are dispatched and Promise.all
\* over them is awaited.
EnrichDispatch ==
    /\ wstatus = "running"
    /\ pointer = "enrichData"
    /\ nsteps < RecursionLimit
    /\ inflight = {} /\ settled = <<>>
    /\ nsteps' = nsteps + 1
    /\ inflight' = 1..Len(SubTasks)
    /\ console' = Trace(console, Enter("enrichData")) \o SubTasks
    /\ traceDepth' = traceDepth + 1
    /\ UNCHANGED <<mvars, evars, script, input, followed, gvars, fvars, graph, compiled, state,
                   pointer, wstatus, executed, outcomes, settled>>

\* A sub-task whose exception is caught and replaced by an empty object.
Settle_caught(out) == IF out.ok THEN out ELSE Value(<<>>)

\* How the promise of a sub-task settles: as its body did.
Settle(out) == out

\* Sub-task p settles; a sub-task that throws rejects the Promise.all and
\* with it the node.
SubTaskSettles(p) ==
    /\ wstatus = "running"
    /\ p \in inflight
    /\ \E out \in SubTask(p, state) :
          /\ inflight' = inflight \ {p}
          /\ outcomes' = Append(outcomes, Outcome(SubTasks[p], out))
          /\ IF Settle(out).ok
             THEN /\ settled' = Append(settled, [p |-> p, msg |-> Settle(out).value])
                  /\ UNCHANGED wstatus
             ELSE /\ wstatus' = "ExecutionError"
                  /\ UNCHANGED settled
    /\ UNCHANGED <<mvars, tvars, evars, script, input, followed, gvars, fvars, graph, compiled, state,
                   pointer, executed, nsteps>>

\* An enrichData that returns without awaiting its sub-tasks.
Awaited_notAwaited(results, n) == results = <<>>

\* Promise.all over n promises resolves when all n have a result.
Awaited(results, n) == Len(results) = n

\* enrichData: the results of Promise.all assigned onto an empty object.
enrichDataNode(s, results) ==
    Returns([enrichments |-> ObjectAssign(<<>>, PromiseAll(results))])

\* Promise.all resolves: enrichData returns, its update is merged and the
\* walk moves on.
EnrichJoin ==
    /\ wstatus = "running"
    /\ pointer = "enrichData"
    /\ inflight # {} \/ settled # <<>>
    /\ Awaited(settled, Len(SubTasks))
    /\ LET merged == Merge(state, enrichDataNode(state, settled).update)
           target == NextAfter(graph, "enrichData", state, merged)
       IN /\ state' = merged
          /\ executed' = Append(executed, "enrichData")
          /\ pointer' = target
          /\ wstatus' = After(target)
          /\ console' = Trace(console, Exit("enrichData"))
                            \o ResolveOutput(graph, "enrichData", merged)
          /\ traceDepth' = traceDepth - 1
    /\ UNCHANGED <<mvars, evars, script, input, followed, gvars, fvars, graph, compiled, nsteps,
                   outcomes, inflight, settled>>

(* ----------------------- invokes of the weather agent ------------------ *)

\* agent.invoke({messages: [user message]}, config): the transcript of the
\* thread is loaded and the user message appended to it.
W_Invoke(thread) ==
    /\ weather.status # "running"
    /\ Len(turns) < MaxTurns
    /\ LET question == IF turns = <<>> THEN UserMessages[1] ELSE UserMessages[2]
       IN weather' = [status |-> "running", at |-> "model", thread |-> thread,
                      question |-> question,
                      loaded |-> load(memory, thread),
                      messages |-> load(memory, thread) \o <<HumanMessage(question)>>,
                      modelCalls |-> 0, reads |-> 1, writes |-> 0]
    /\ UNCHANGED <<mvars, tvars, memory, turns, xvars, script, input, followed, gvars, fvars>>

\* The model answers with a tool call or with a plain message.
W_Model ==
    /\ weather.status = "running"
    /\ weather.at = "model"
    /\ \E r \in WeatherResponses :
          /\ weather.modelCalls >= MaxWeatherCalls => Len(r.tool_calls) = 0
          /\ weather' = [weather EXCEPT
                 !.messages = Append(@, r),
                 !.modelCalls = @ + 1,
                 !.at = IF Len(r.tool_calls) > 0 THEN "tools" ELSE "end"]
    /\ UNCHANGED <<mvars, tvars, memory, turns, xvars, script, input, followed, gvars, fvars>>

\* The model call fails: the invoke rejects and nothing is saved.
W_ModelFails ==
    /\ weather.status = "running"
    /\ weather.at = "model"
    /\ weather' = [weather EXCEPT !.status = "failed", !.at = ""]
    /\ UNCHANGED <<mvars, tvars, memory, turns, xvars, script, input, followed, gvars, fvars>>

\* The tools asked for by the last message run.
W_Tools ==
    /\ weather.status = "running"
    /\ weather.at = "tools"
    /\ LET toolCalls == Last(weather.messages).tool_calls
       IN weather' = [weather EXCEPT
              !.messages = @ \o [i \in 1..Len(toolCalls) |-> WeatherTool(toolCalls[i])],
              !.at = "model"]
    /\ UNCHANGED <<mvars, tvars, memory, turns, xvars, script, input, followed, gvars, fvars>>

\* The walk ends: the transcript is saved under the thread and returned.
W_End ==
    /\ weather.status = "running"
    /\ weather.at = "end"
    /\ memory' = save(memory, weather.thread, weather.messages)
    /\ weather' = [weather EXCEPT !.status = "done", !.at = "", !.writes = @ + 1]
    /\ turns' = Append(turns, weather')
    /\ UNCHANGED <<mvars, tvars, xvars, script, input, followed, gvars, fvars>>

(* ------------------- main of the document analysis --------------------- *)

\* main enters its try block and starts the first analysis.
M_Start ==
    /\ mainpc.at = "idle"
    /\ mainpc' = [at |-> "run", run |-> 1, calls |-> 0]
    /\ UNCHANGED <<callers, mcpClient, clients, tvars, evars, xvars, script, input,
                   followed, gvars, fvars>>

\* A node of the running analysis calls initMCPClient: the global client
\* is returned if there is one, otherwise a client is constructed, made
\* the global client, and its connect is awaited.
M_InitMCPClient ==
    /\ mainpc.at = "run"
    /\ mainpc.calls < Cardinality(McpNodes)
    /\ IF mcpClient # 0
       THEN /\ mainpc' = [mainpc EXCEPT !.at = "callTool"]
            /\ UNCHANGED <<callers, mcpClient, clients>>
       ELSE /\ clients' = Append(clients, "connecting")
            /\ mcpClient' = Len(clients) + 1
            /\ mainpc' = [mainpc EXCEPT !.at = "connect"]
    /\ UNCHANGED <<callers, tvars, evars, xvars, script, input, followed, gvars, fvars>>

\* client.connect settles: the connection is established, or the global
\* client is reset to null and the error caught by the node.
M_Connect ==
    /\ mainpc.at = "connect"
    /\ \E ok \in BOOLEAN :
          IF ok
          THEN /\ clients' = [clients EXCEPT ![mcpClient] = "open"]
               /\ mainpc' = [mainpc EXCEPT !.at = "listTools"]
               /\ UNCHANGED mcpClient
          ELSE /\ clients' = [clients EXCEPT ![mcpClient] = "failed"]
               /\ mcpClient' = catch(mcpClient)
               /\ mainpc' = [mainpc EXCEPT !.at = "run", !.calls = @ + 1]
    /\ UNCHANGED <<callers, tvars, evars, xvars, script, input, followed, gvars, fvars>>

\* client.listTools settles: initMCPClient returns the client, or the
\* global client is reset to null and the error caught by the node.
M_ListTools ==
    /\ mainpc.at = "listTools"
    /\ \E ok \in BOOLEAN :
          IF ok
          THEN /\ mainpc' = [mainpc EXCEPT !.at = "callTool"]
               /\ UNCHANGED mcpClient
          ELSE /\ mcpClient' = catch(mcpClient)
               /\ mainpc' = [mainpc EXCEPT !.at = "run", !.calls = @ + 1]
    /\ UNCHANGED <<callers, clients, tvars, evars, xvars, script, input, followed,
                   gvars, fvars>>

\* client.callTool settles, with a result or an error the node catches.
M_CallTool ==
    /\ mainpc.at = "callTool"
    /\ mainpc' = [mainpc EXCEPT !.at = "run", !.calls = @ + 1]
    /\ UNCHANGED <<callers, mcpClient, clients, tvars, evars, xvars, script, input,
                   followed, gvars, fvars>>

\* The running analysis returns, after fetchWikiStructure at least: the
\* next one starts, or main enters its finally block.
M_Returns ==
    /\ mainpc.at = "run"
    /\ mainpc.calls >= 1
    /\ mainpc' = IF mainpc.run < Len(Analyses)
                 THEN [at |-> "run", run |-> mainpc.run + 1, calls |-> 0]
                 ELSE [mainpc EXCEPT !.at = "finally"]
    /\ UNCHANGED <<callers, mcpClient, clients, tvars, evars, xvars, script, input,
                   followed, gvars, fvars>>

\* The finally block of main: the global client, if there is one, is
\* disconnected, and main returns.
M_Finally ==
    /\ mainpc.at = "finally"
    /\ clients' = IF mcpClient # 0 THEN disconnect(clients, mcpClient) ELSE clients
    /\ mainpc' = [mainpc EXCEPT !.at = "returned"]
    /\ UNCHANGED <<callers, mcpClient, tvars, evars, xvars, script, input, followed,
                   gvars, fvars>>

(* ------------------ overlapping calls of initMCPClient ----------------- *)

\* Caller c calls initMCPClient: when the global client is set it is
\* returned at once, connected or not; otherwise a client is constructed
\* and made the global client, and its connect is awaited.
I_Call(c) ==
    /\ callers[c].at = "idle"
    /\ callers[c].calls < MaxInitCalls
    /\ IF mcpClient # 0
       THEN /\ callers' = [callers EXCEPT ![c] =
                   [at |-> "returned", client |-> mcpClient,
                    connected |-> clients[mcpClient] = "open",
                    calls |-> @.calls + 1]]
            /\ UNCHANGED <<mcpClient, clients>>
       ELSE /\ clients' = Append(clients, "connecting")
            /\ mcpClient' = Len(clients) + 1
            /\ callers' = [callers EXCEPT ![c] =
                   [at |-> "connect", client |-> Len(clients) + 1,
                    connected |-> FALSE, calls |-> @.calls + 1]]
    /\ UNCHANGED <<mainpc, tvars, evars, xvars, script, input, followed,
                   gvars, fvars>>

\* The connect awaited by caller c settles.
I_Connect(c) ==
    /\ callers[c].at = "connect"
    /\ \E ok \in BOOLEAN :
          IF ok
          THEN /\ clients' = [clients EXCEPT ![callers[c].client] = "open"]
               /\ callers' = [callers EXCEPT ![c].at = "listTools",
                                             ![c].connected = TRUE]
               /\ UNCHANGED mcpClient
          ELSE /\ clients' = [clients EXCEPT ![callers[c].client] = "failed"]
               /\ mcpClient' = catch(mcpClient)
               /\ callers' = [callers EXCEPT ![c].at = "idle", ![c].client = 0]
    /\ UNCHANGED <<mainpc, tvars, evars, xvars, script, input, followed,
                   gvars, fvars>>

\* The listTools awaited by caller c settles.
I_ListTools(c) ==
    /\ callers[c].at = "listTools"
    /\ \E ok \in BOOLEAN :
          IF ok
          THEN /\ callers' = [callers EXCEPT ![c].at = "returned"]
               /\ UNCHANGED mcpClient
          ELSE /\ mcpClient' = catch(mcpClient)
               /\ callers' = [callers EXCEPT ![c].at = "idle", ![c].client = 0,
                                             ![c].connected = FALSE]
    /\ UNCHANGED <<clients, mainpc, tvars, evars, xvars, script, input,
                   followed, gvars, fvars>>

\* Caller c uses the client it received for callTool and is done with it.
I_CallTool(c) ==
    /\ callers[c].at = "returned"
    /\ callers' = [callers EXCEPT ![c].at = "idle", ![c].client = 0,
                                  ![c].connected = FALSE]
    /\ UNCHANGED <<mcpClient, clients, mainpc, tvars, evars, xvars, script,
                   input, followed, gvars, fvars>>

(* ---------------------------- specification ---------------------------- *)

Next ==
    \/ \E w \in Runs : LlmCallStep(w)
    \/ \E w \in Runs : ToolNodeStep(w)
    \/ \E w \in Runs : StepLimit(w)
    \/ \E f \in Runs : F_Start(f)
    \/ \E f \in Runs : F_LlmReturns(f)
    \/ \E f \in Runs, p \in 1..(MaxCalls + 1) : F_ToolCompletes(f, p)
    \/ \E f \in Runs : F_Join(f)

Spec == Init /\ [][Next]_vars

\* Two invokes of the same agent on the same input with the same stubs.
TwoScripts == { sc \in Scripts : sc.k = Forever \/ sc.k <= TwoK }

InitTwo ==
    /\ \/ InitWith(Runs, {}, TwoScripts, TwoFCalls)
       \/ InitWith({}, Runs, TwoScripts, TwoFCalls)
    /\ AgentCompiled

SpecTwo == InitTwo /\ [][Next]_vars

\* One invoke of one agent, followed past the recursion limit.
InitLong ==
    /\ \/ InitWith({1}, {}, Scripts, MaxFCalls)
       \/ InitWith({}, {1}, Scripts, MaxFCalls)
    /\ AgentCompiled

SpecLong == InitLong /\ [][Next]_vars

\* The user questions runDocumentAnalysis is called with: none, blanks
\* only, and questions.
Questions ==
    { <<>>, <<" ", " ">>, <<"W", "h", "y", "?">>, <<" ", "?", " ">> }

\* The states invoke is called with: input for the classification graph,
\* repoName and userQuestion for the document-analysis graph.
InitialStates(g) ==
    IF "classifyInput" \in g.nodes
    THEN { [input |-> i] : i \in ClassificationInputs }
    ELSE { [repoName |-> "facebook/react", userQuestion |-> q] : q \in Questions }

\* A model that is never called.
NoScript == [k |-> 0, calls |-> <<>>, fail |-> 0]

\* One of the graphs of G is built and compiled and, if that succeeded,
\* invoked once.
InitGraph(G) ==
    /\ graph \in G
    /\ compiled = compile(graph)
    /\ NoWeather
    /\ NoOutput
    /\ NoMain
    /\ executed = <<>>
    /\ nsteps = 0
    /\ outcomes = <<>>
    /\ inflight = {}
    /\ settled = <<>>
    /\ IF graph.nodes = toolCallingGraph.nodes
       THEN /\ InitWith(IF compiled = "ok" THEN {1} ELSE {}, {}, Scripts, 0)
            /\ state = <<>>
            /\ pointer = START
            /\ wstatus = "idle"
       ELSE /\ InitWith({}, {}, {NoScript}, 0)
            /\ input = <<>>
            /\ state \in InitialStates(graph)
            /\ pointer = IF compiled = "ok" THEN Resolve(graph, START, state)
                         ELSE START
            /\ wstatus = IF compiled = "ok" THEN "running" ELSE "idle"

InitGraphs == InitGraph(Graphs)

NextGraphs ==
    \/ \E w \in Runs : LlmCallStep(w)
    \/ \E w \in Runs : ToolNodeStep(w)
    \/ \E w \in Runs : StepLimit(w)
    \/ FetchWikiStructure
    \/ FetchWikiContents
    \/ AnalyzeInsights
    \/ AnswerQuestion
    \/ GenerateSummary
    \/ ClassifyInput
    \/ ProcessMath
    \/ ProcessText
    \/ ProcessData
    \/ EnrichDispatch
    \/ \E p \in 1..Len(SubTasks) : SubTaskSettles(p)
    \/ EnrichJoin
    \/ SummarizeResults

\* One walk of one of the three graphs.
SpecGraphs == InitGraphs /\ [][NextGraphs]_vars

\* The steps of a walk of the document-analysis or classification graph.
NextWalks ==
    \/ FetchWikiStructure
    \/ FetchWikiContents
    \/ AnalyzeInsights
    \/ AnswerQuestion
    \/ GenerateSummary
    \/ ClassifyInput
    \/ ProcessMath
    \/ ProcessText
    \/ ProcessData
    \/ EnrichDispatch
    \/ \E p \in 1..Len(SubTasks) : SubTaskSettles(p)
    \/ EnrichJoin
    \/ SummarizeResults

\* One walk of one of these two graphs when the executor keeps running
\* it: a node that can be executed, or a sub-task that can settle,
\* eventually is.
FairWalks ==
    /\ InitGraph({classificationGraph, documentAnalysisGraph})
    /\ [][NextWalks]_vars
    /\ WF_vars(NextWalks)

\* Invokes of the weather agent, on one thread or another.
NextMemory ==
    \/ \E thread \in Threads : W_Invoke(thread)
    \/ W_Model
    \/ W_ModelFails
    \/ W_Tools
    \/ W_End

\* No walk of the arithmetic agents: the weather agent alone.
InitMemory ==
    /\ InitWith({}, {}, {NoScript}, 0)
    /\ input = <<>>
    /\ AgentCompiled

SpecMemory == InitMemory /\ [][NextMemory]_vars

\* main of the document analysis and the MCP client it uses.
NextMain ==
    \/ M_Start
    \/ M_InitMCPClient
    \/ M_Connect
    \/ M_ListTools
    \/ M_CallTool
    \/ M_Returns
    \/ M_Finally

SpecMain == InitMemory /\ [][NextMain]_vars

\* Two callers of initMCPClient, their calls overlapping or not.
NextInit ==
    \/ \E c \in Callers : I_Call(c)
    \/ \E c \in Callers : I_Connect(c)
    \/ \E c \in Callers : I_ListTools(c)
    \/ \E c \in Callers : I_CallTool(c)

SpecInit == InitMemory /\ [][NextInit]_vars

\* The graph g with one edge, or one destination of a conditional edge,
\* pointing at a node that was never registered.
Dangling(g) ==
    { [g EXCEPT !.edges = (@ \ {e}) \cup { <<e[1], "missing">> }] : e \in g.edges }
    \cup
    UNION { { [g EXCEPT !.branches = (@ \ {b}) \cup
                   { [b EXCEPT !.ends = [@ EXCEPT ![label] = "missing"]] }] :
                label \in DOMAIN b.ends } : b \in g.branches }

\* One of the three graphs, or one of them with a dangling edge target,
\* is built and compiled and, if that succeeded, invoked once.
InitCompile == InitGraph(Graphs \cup UNION { Dangling(g) : g \in Graphs })

SpecCompile == InitCompile /\ [][NextGraphs]_vars

TypeOK ==
    /\ script \in Scripts
    /\ input \in Inputs
    /\ \A w \in Runs :
          /\ next[w] \in {"llmCall", "toolNode", END}
          /\ steps[w] \in 0..RecursionLimit
          /\ status[w] \in {"idle", "running", "done", "ExecutionError",
                            "StepLimitExceeded"}
          /\ fpc[w] \in {"idle", "start", "awaitLlm", "awaitTools", "done",
                         "ExecutionError"}
    /\ compiled \in {"ok", "ConfigurationError"}
    /\ pointer \in graph.nodes \cup {START, END}
    /\ wstatus \in {"idle", "running", "done", "ExecutionError"}
    /\ nsteps \in 0..RecursionLimit
    /\ inflight \subseteq 1..Len(SubTasks)
    /\ \A i \in 1..Len(settled) : settled[i].p \in 1..Len(SubTasks)
    /\ DOMAIN memory \subseteq Threads
    /\ weather.status \in {"idle", "running", "done", "failed"}
    /\ weather.modelCalls \in 0..(MaxWeatherCalls + 1)
    /\ Len(turns) \in 0..MaxTurns
    /\ traceDepth \in {0, 1}
    /\ \A i \in 1..Len(console) : console[i] \in STRING
    /\ mcpClient \in 0..Len(clients)
    /\ \A c \in 1..Len(clients) :
          clients[c] \in {"connecting", "open", "failed", "closed"}
    /\ \A c \in Callers :
          /\ callers[c].at \in {"idle", "connect", "listTools", "returned"}
          /\ callers[c].client \in 0..Len(clients)
          /\ callers[c].calls \in 0..MaxInitCalls
    /\ mainpc.at \in {"idle", "run", "connect", "listTools", "callTool",
                      "finally", "returned"}

(* ------------------------------ properties ----------------------------- *)

Range(s) == { s[i] : i \in 1..Len(s) }

Count(s, x) == Cardinality({ i \in 1..Len(s) : s[i] = x })

\* Walk w completes a step of the node in this transition.
Completes(w, node) == trace'[w] = Append(trace[w], node)

CarriesToolCalls(m) == m.role = "ai" /\ Len(m.tool_calls) > 0

\* The most recent ai message of a transcript (NoMsg if there is none).
MostRecentAi(msgs) ==
    IF \E i \in 1..Len(msgs) : msgs[i].role = "ai"
    THEN msgs[CHOOSE i \in 1..Len(msgs) :
                 /\ msgs[i].role = "ai"
                 /\ \A j \in (i + 1)..Len(msgs) : msgs[j].role # "ai"]
    ELSE NoMsg

AllValid(calls) ==
    \A p \in 1..Len(calls) :
        calls[p].name \in toolsByName /\ calls[p].a.t = "number" /\ calls[p].b.t = "number"

\* The scenario "Add 3 and 4.": the model asks once for add(a=3,b=4) and
\* then answers with the result.
AddScenario ==
    /\ input = << HumanMessage("Add 3 and 4.") >>
    /\ script = [k |-> 1, fail |-> 0,
                 calls |-> << [name |-> "add", a |-> Num(3), b |-> Num(4)] >>]

AddTranscript ==
    << HumanMessage("Add 3 and 4."),
       AIMessage("", << ToolCall(<<1, 1>>, "add", Num(3), Num(4)) >>),
       ToolMessage("7", <<1, 1>>),
       AIMessage("7", <<>>) >>

\* C1: after every llmCall step of the graph agent the next node is
\* toolNode if the last message of the merged transcript is an ai message
\* carrying one or more tool calls, and END otherwise.
C1_RoutingAfterLlmCall ==
    [][\A w \in Runs :
          Completes(w, "llmCall") =>
              next'[w] = IF CarriesToolCalls(Last(messages'[w]))
                         THEN "toolNode" ELSE END]_vars

\* A walk that ended after going through toolNode: both successors of
\* llmCall were taken.
C1_Witness ==
    \E w \in Runs : status[w] = "done" /\ "toolNode" \in Range(trace[w])

\* C2: every completed toolNode step is followed by an llmCall step: the
\* node completed after toolNode is llmCall, and a walk whose last
\* completed node is toolNode has llmCall as its next node and either
\* is running with a step left to execute it, or executed it and was
\* stopped by the failure of its model call; it is never at END.
C2_ToolNodeThenLlmCall ==
    \A w \in Runs : \A i \in 1..Len(trace[w]) :
        trace[w][i] = "toolNode" =>
            IF i < Len(trace[w]) THEN trace[w][i + 1] = "llmCall"
            ELSE /\ next[w] = "llmCall"
                 /\ \/ status[w] = "running" /\ steps[w] < RecursionLimit
                    \/ /\ status[w] = "ExecutionError"
                       /\ steps[w] = Len(trace[w]) + 1
                       /\ ModelFails(script, <<SystemPrompt>> \o messages[w])

\* A walk that went llmCall, toolNode, llmCall, toolNode.
C2_Witness ==
    \E w \in Runs : Count(trace[w], "toolNode") >= 2

\* C3: in the scenario "Add 3 and 4." the graph agent never fails, and
\* its final transcript is exactly human, ai with the tool call, tool
\* result 7, ai "7".
C3_AddScenarioTranscript ==
    \A w \in Runs :
        AddScenario =>
            /\ status[w] \in {"idle", "running", "done"}
            /\ status[w] = "done" => messages[w] = AddTranscript

C3_Witness ==
    AddScenario /\ status[1] = "done"

C5_FunctionalReturnsAnswer ==
    \A f \in Runs :
        (AddScenario /\ fpc[f] = "done") => fResult[f] = AddTranscript

\* C6: when the graph agent and the functional agent both end, the list
\* the functional agent returned equals the messages channel of the
\* graph agent's final state.
C6_SameResult ==
    (status[1] = "done" /\ fpc[1] = "done") => fResult[1] = messages[1]

\* C7: with a model that asks for tool calls on every call, neither agent
\* ends normally, the graph agent stops on the step limit after exactly
\* RecursionLimit node executions, and the functional agent's loop makes
\* no more than RecursionLimit model calls.
C7_StepLimitBothAgents ==
    (script.k = Forever /\ script.fail = 0 /\ AllValid(script.calls)) =>
        /\ \A w \in Runs :
              /\ status[w] \in {"idle", "running", "StepLimitExceeded"}
              /\ steps[w] <= RecursionLimit
              /\ status[w] = "StepLimitExceeded" => steps[w] = RecursionLimit
        /\ \A f \in Runs :
              /\ fpc[f] # "done"
              /\ fLlmCalls[f] <= RecursionLimit

Comparable(s, t) == IsPrefix(s, t) \/ IsPrefix(t, s)

Ended(w) == status[w] \in {"done", "ExecutionError", "StepLimitExceeded"}

FEnded(f) == fpc[f] \in {"done", "ExecutionError"}

\* C8: two invokes on the same initial transcript with the same stub
\* model and tools go through the same nodes and transcripts (at every
\* moment one has done a prefix of the other) and end alike, with
\* identical final transcripts.
C8_Deterministic ==
    /\ Comparable(trace[1], trace[2])
    /\ Comparable(messages[1], messages[2])
    /\ Comparable(fMessages[1], fMessages[2])
    /\ (Ended(1) /\ Ended(2)) =>
          /\ status[1] = status[2]
          /\ trace[1] = trace[2]
          /\ messages[1] = messages[2]
    /\ (FEnded(1) /\ FEnded(2)) =>
          /\ fpc[1] = fpc[2]
          /\ fMessages[1] = fMessages[2]
          /\ fResult[1] = fResult[2]

\* Two runs of the functional agent ended after a response with two tool
\* calls whose tasks completed in different orders.
C8_Witness ==
    /\ fpc[1] = "done" /\ fpc[2] = "done"
    /\ Len(toolResults[1]) = 2 /\ Len(toolResults[2]) = 2
    /\ toolResults[1][1].p # toolResults[2][1].p

\* C9: the transcript is append-only: in every step the previous
\* transcript is a prefix of the new one, in the graph agent's messages
\* channel and in the functional agent's messages.
C9_AppendOnly ==
    [][\A w \in Runs :
          /\ IsPrefix(messages[w], messages'[w])
          /\ IsPrefix(fMessages[w], fMessages'[w])]_vars

C9_Witness ==
    /\ Len(messages[1]) >= Len(input) + 4
    /\ Len(fMessages[1]) >= Len(input) + 3

\* C10: a completed toolNode step appends, after the unchanged transcript,
\* exactly one tool message for each tool call of the most recent ai
\* message, in the order of the calls, each with the id of its call.
C10_ToolNodeAppends ==
    [][\A w \in Runs :
          Completes(w, "toolNode") =>
              LET calls == MostRecentAi(messages[w]).tool_calls
                  old == Len(messages[w])
              IN /\ IsPrefix(messages[w], messages'[w])
                 /\ Len(messages'[w]) = old + Len(calls)
                 /\ \A i \in 1..Len(calls) :
                       /\ messages'[w][old + i].role = "tool"
                       /\ messages'[w][old + i].tool_call_id = calls[i].id]_vars

\* A toolNode step completed on an ai message with two tool calls.
C10_Witness ==
    \E w \in Runs :
        /\ Len(script.calls) = 2
        /\ "toolNode" \in Range(trace[w])
        /\ Last(messages[w]).role = "tool"

\* C11: a tool call whose arguments fail the schema validation, or that
\* cannot be served, does not fail the agent: no walk stops with an error
\* at toolNode and no run of the functional agent is rejected by a
\* callTool task (an error that stops an agent is one of the model call).
C11_ToolErrorsRecoverable ==
    \A w \in Runs :
        /\ ~(status[w] = "ExecutionError" /\ next[w] = "toolNode")
        /\ ~(fpc[w] = "ExecutionError" /\ fLlmCalls[w] # script.fail)

\* The external call of the node that walk w executes next fails.
ExternalCallFails(w) ==
    \/ /\ next[w] = "llmCall"
       /\ ModelFails(script, <<SystemPrompt>> \o messages[w])
    \/ /\ next[w] = "toolNode"
       /\ \E p \in 1..Len(Last(messages[w]).tool_calls) :
             ~ToolInvoke(Last(messages[w]).tool_calls[p]).ok

\* C12: when the external call of the node a walk executes fails (the
\* model call in llmCall, a tool in toolNode), that execution stops the
\* walk with the error: nothing is merged into the transcript, the node
\* is not recorded as completed, and from then on the walk executes no
\* node (the failed one included) and never ends normally.
C12_FailFast ==
    [][\A w \in Runs :
          /\ (status[w] = "running" /\ steps'[w] # steps[w] /\ ExternalCallFails(w)) =>
                /\ status'[w] = "ExecutionError"
                /\ steps'[w] = steps[w] + 1
                /\ messages'[w] = messages[w]
                /\ trace'[w] = trace[w]
          /\ status[w] = "ExecutionError" =>
                /\ status'[w] = "ExecutionError"
                /\ steps'[w] = steps[w]
                /\ messages'[w] = messages[w]
                /\ trace'[w] = trace[w]
                /\ next'[w] = next[w]]_vars

\* A walk stopped by its second model call, after a toolNode step.
C12_Witness ==
    /\ status[1] = "ExecutionError"
    /\ script.fail = 2
    /\ trace[1] = <<"llmCall", "toolNode">>
    /\ steps[1] = 3

(* ------------------- properties of the fan-out stage ------------------- *)

\* The walk completed node n.
Executed(n) == n \in Range(executed)

\* The object sub-task p of enrichData returned (it has settled).
ResultOf(p) == settled[CHOOSE i \in 1..Len(settled) : settled[i].p = p].msg

\* The sub-tasks that have returned an object.
Fulfilled == { settled[i].p : i \in 1..Len(settled) }

\* The sub-tasks whose object has the key.
Writers(key) == { p \in Fulfilled : key \in Keys(ResultOf(p)) }

Max(S) == CHOOSE x \in S : \A y \in S : y <= x

Min(S) == CHOOSE x \in S : \A y \in S : x <= y

\* The position of the key among the properties of the object.
IndexOf(obj, key) == CHOOSE i \in 1..Len(obj) : obj[i][1] = key

\* C13: once enrichData has completed, the enrichments channel is the
\* merge of the sub-task results in declaration order, whatever order
\* they completed in: it has exactly the keys the sub-tasks returned,
\* each key holds the value of the last-declared sub-task that wrote it,
\* and the keys come in the order in which the declaration first has them.
C13_DeclarationOrderMerge ==
    Executed("enrichData") =>
        LET enrichments == state.enrichments
        IN /\ Keys(enrichments) = UNION { Keys(ResultOf(p)) : p \in Fulfilled }
           /\ Len(enrichments) = Cardinality(Keys(enrichments))
           /\ \A key \in Keys(enrichments) :
                 Property(enrichments, key) = Property(ResultOf(Max(Writers(key))), key)
           /\ \A k1, k2 \in Keys(enrichments) :
                 Min(Writers(k1)) < Min(Writers(k2)) =>
                     IndexOf(enrichments, k1) < IndexOf(enrichments, k2)

\* enrichData completed after its sub-tasks settled in the order tags,
\* complexity, sentiment.
C13_Witness ==
    /\ Executed("enrichData")
    /\ Len(settled) = 3
    /\ settled[1].p = 3 /\ settled[2].p = 2 /\ settled[3].p = 1

\* C14: before all three sub-tasks of enrichData have completed, the
\* enrichments channel has no value, enrichData has not completed and
\* summarizeResults is neither the next node nor executed; and once
\* enrichData has completed, the channel holds every key that every
\* sub-task returned.
C14_JoinBarrier ==
    /\ (\/ "enrichments" \in DOMAIN state
        \/ Executed("enrichData")
        \/ pointer = "summarizeResults"
        \/ Executed("summarizeResults")) =>
           /\ inflight = {}
           /\ Fulfilled = 1..Len(SubTasks)
    /\ Executed("enrichData") =>
           \A p \in 1..Len(SubTasks) :
               /\ Keys(ResultOf(p)) # {}
               /\ Keys(ResultOf(p)) \subseteq Keys(state.enrichments)

\* A walk that ended after summarizeResults.
C14_Witness ==
    /\ wstatus = "done"
    /\ Executed("summarizeResults")
    /\ Len(settled) = 3

\* A sub-task of enrichData threw.
SubTaskFailed ==
    \E i \in 1..Len(outcomes) :
        outcomes[i].node \in Range(SubTasks) /\ ~outcomes[i].ok

\* C15: when a sub-task of enrichData has failed, the walk is stopped
\* with the error at enrichData: the enrichments channel has no value
\* (nothing of the sub-tasks that succeeded is merged), enrichData is not
\* completed and summarizeResults is not executed.
C15_StageFailsAsWhole ==
    SubTaskFailed =>
        /\ wstatus = "ExecutionError"
        /\ pointer = "enrichData"
        /\ "enrichments" \notin DOMAIN state
        /\ ~Executed("enrichData")
        /\ ~Executed("summarizeResults")

\* A sub-task failed after two others had returned their objects.
C15_Witness ==
    /\ SubTaskFailed
    /\ Len(settled) = 2
    /\ wstatus = "ExecutionError"

(* --------------------- properties of the weather agent ---------------- *)

\* The invoke before turn j on the same thread, 0 when there is none.
PreviousTurn(j) ==
    Max({0} \cup { i \in 1..(j - 1) : turns[i].thread = turns[j].thread })

\* C21: memory is keyed by thread_id. The transcript of an invoke begins
\* with the complete final transcript of the previous invoke on the same
\* thread, followed by the new user message, and with the user message
\* alone on a thread never used before; memory is read once at the start
\* of an invoke and written once at its end.
C21_MemoryKeyedByThread ==
    /\ \A j \in 1..Len(turns) :
          LET i == PreviousTurn(j)
              before == IF i = 0 THEN <<>> ELSE turns[i].messages
          IN /\ turns[j].loaded = before
             /\ Len(turns[j].messages) > Len(before)
             /\ SubSeq(turns[j].messages, 1, Len(before) + 1)
                    = before \o <<HumanMessage(turns[j].question)>>
             /\ turns[j].reads = 1
             /\ turns[j].writes = 1
    /\ weather.status \in {"running", "failed"} =>
          weather.reads = 1 /\ weather.writes = 0

\* Two invokes on one thread ended after an invoke on the other thread,
\* and the first of the two used a tool.
C21_Witness ==
    /\ Len(turns) = 3
    /\ turns[1].thread = "1"
    /\ turns[2].thread = "2"
    /\ turns[3].thread = "1"
    /\ Len(turns[1].messages) > 2
    /\ turns[3].question = "thank you!"

(* --------------------- properties of the three graphs ------------------ *)

\* The walk completes a step of node n in this transition.
Finishes(n) == executed' = Append(executed, n)

\* Node n is the source of a conditional edge of the graph.
Branching(n) == \E b \in graph.branches : b.source = n

BranchOf(n) == CHOOSE b \in graph.branches : b.source = n

\* C16: whenever a routing function is evaluated (shouldContinue after
\* llmCall, checkError after fetchWikiStructure, shouldAnswerQuestion
\* after analyzeInsights, routeByCategory after classifyInput, for every
\* category the classifier can produce), the label it returns is one of
\* the labels declared with its conditional edge, and the walk neither
\* stops on an unmapped label nor points at something that is not a node
\* or END.
C16_LabelsAreMapped ==
    [][/\ \A w \in Runs :
            Completes(w, "llmCall") =>
                /\ shouldContinue(messages'[w]) \in DOMAIN BranchOf("llmCall").ends
                /\ next'[w] \in graph.nodes \cup {END}
       /\ \A n \in graph.nodes :
            (Finishes(n) /\ Branching(n)) =>
                /\ Route(BranchOf(n).path, state') \in DOMAIN BranchOf(n).ends
                /\ wstatus' # "UnmappedLabel"
                /\ pointer' \in graph.nodes \cup {END}]_vars

\* classifyInput produced a category outside math, text, data and
\* unknown, and the walk went on to enrichData.
C16_Witness ==
    /\ executed = <<"classifyInput">>
    /\ state.category = "image"
    /\ pointer = "enrichData"
    /\ wstatus = "running"

\* C17: in the graph that was built, every registered node has an
\* outgoing edge (static or conditional), is reachable from START, and
\* can reach END.
C17_WellFormed ==
    \A n \in graph.nodes :
        /\ \E e \in Successors(graph) : e[1] = n
        /\ n \in ReachableFrom(graph, {START})
        /\ END \in ReachableFrom(graph, {n})

\* A walk of the document-analysis graph went through all five nodes to
\* END.
C17_Witness ==
    /\ graph = documentAnalysisGraph
    /\ wstatus = "done"
    /\ Range(executed) = graph.nodes

\* The graph has an edge, or a destination of a conditional edge, that is
\* neither a registered node nor END.
HasDanglingTarget(g) ==
    \E e \in Successors(g) : e[2] \notin g.nodes \cup {END}

\* C18: a graph with a dangling edge target is rejected by compile with a
\* ConfigurationError, and none of its nodes is ever executed: no walk of
\* it is started.
C18_DanglingRejected ==
    HasDanglingTarget(graph) =>
        /\ compiled = "ConfigurationError"
        /\ wstatus = "idle" /\ nsteps = 0 /\ executed = <<>>
        /\ \A w \in Runs : status[w] = "idle" /\ steps[w] = 0 /\ trace[w] = <<>>

\* The document-analysis graph with the destination of the label
\* continue pointing at a node that is not registered.
C18_Witness ==
    /\ graph.nodes = documentAnalysisGraph.nodes
    /\ \E b \in graph.branches :
          "continue" \in DOMAIN b.ends /\ b.ends["continue"] = "missing"
    /\ compiled = "ConfigurationError"

\* The node the claim names as the first of each graph.
FirstNode ==
    IF graph = toolCallingGraph THEN "llmCall"
    ELSE IF graph = classificationGraph THEN "classifyInput"
    ELSE "fetchWikiStructure"

\* START and END are not among the executed nodes, START has a single
\* edge, and the walk starts at, and first executes, the target of it.
StartsAtEntry ==
    /\ { e[2] : e \in { x \in graph.edges : x[1] = START } } = {FirstNode}
    /\ Range(executed) \cap {START, END} = {}
    /\ executed # <<>> => executed[1] = FirstNode
    /\ (wstatus = "running" /\ nsteps = 0) => pointer = FirstNode
    /\ \A w \in Runs :
          /\ Range(trace[w]) \cap {START, END} = {}
          /\ trace[w] # <<>> => trace[w][1] = FirstNode
          /\ (status[w] = "running" /\ steps[w] = 0) => next[w] = FirstNode

\* C19: START and END are never executed; the first node a walk executes
\* is the target of START's single edge (llmCall, fetchWikiStructure,
\* classifyInput); and once the next node is END the walk has ended: no
\* node is executed any more and the state no longer changes.
C19_StartAndEnd ==
    [][/\ StartsAtEntry
       /\ StartsAtEntry'
       /\ pointer = END =>
             /\ wstatus = "done"
             /\ UNCHANGED <<state, pointer, wstatus, executed, nsteps>>
       /\ \A w \in Runs :
             (status[w] # "idle" /\ next[w] = END) =>
                 /\ status[w] = "done"
                 /\ UNCHANGED <<messages, next, status, trace, steps>>]_vars

\* A walk of the classification graph at END.
C19_Witness ==
    /\ graph = classificationGraph
    /\ pointer = END
    /\ wstatus = "done"
    /\ executed[1] = "classifyInput"

\* C20: the node that follows a node with a conditional edge is the
\* destination of the label the routing function returns on the state
\* after the step (the update merged), not on the state before it:
\* checkError after fetchWikiStructure, routeByCategory after
\* classifyInput, shouldAnswerQuestion after analyzeInsights, and
\* shouldContinue after llmCall.
C20_RoutedOnMergedState ==
    [][/\ \A n \in graph.nodes :
            (Finishes(n) /\ Branching(n)) =>
                pointer' = BranchOf(n).ends[Route(BranchOf(n).path, state')]
       /\ \A w \in Runs :
            Completes(w, "llmCall") =>
                next'[w] = BranchOf("llmCall").ends[shouldContinue(messages'[w])]]_vars

\* fetchWikiStructure failed and wrote the error channel, and the walk
\* went to END: on the state before the step checkError says continue.
C20_Witness ==
    /\ graph = documentAnalysisGraph
    /\ executed = <<"fetchWikiStructure">>
    /\ "error" \in DOMAIN state
    /\ state.error = "fetch failed"
    /\ pointer = END
    /\ checkError([repoName |-> state.repoName,
                   userQuestion |-> state.userQuestion]) = "continue"

\* The error channel of state s has no value or the empty string.
ErrorEmpty(s) == "error" \notin DOMAIN s \/ s.error = ""

\* The question has a character that is not whitespace.
HasVisibleCharacter(question) ==
    \E i \in 1..Len(question) : question[i] \notin Whitespace

\* C22: answerQuestion is executed exactly when, after analyzeInsights,
\* the error channel is empty and userQuestion has at least one character
\* that is not whitespace; otherwise the walk goes from analyzeInsights
\* straight to generateSummary.
C22_AnswerOnlyWhenAsked ==
    [][/\ Finishes("analyzeInsights") =>
             pointer' = IF ErrorEmpty(state') /\ HasVisibleCharacter(state'.userQuestion)
                        THEN "answerQuestion"
                        ELSE "generateSummary"
       /\ Finishes("answerQuestion") =>
             /\ Last(executed) = "analyzeInsights"
             /\ ErrorEmpty(state)
             /\ HasVisibleCharacter(state.userQuestion)]_vars

\* A question of blanks only was skipped: generateSummary ran right after
\* analyzeInsights.
C22_Witness ==
    /\ graph = documentAnalysisGraph
    /\ state.userQuestion = <<" ", " ">>
    /\ ErrorEmpty(state)
    /\ Len(executed) = 4
    /\ executed[3] = "analyzeInsights"
    /\ executed[4] = "generateSummary"

\* The process node the claim gives to a category, none for a category
\* that is not math, text or data.
ProcessNodeOf(category) ==
    CASE category = "math" -> <<"processMath">>
      [] category = "text" -> <<"processText">>
      [] category = "data" -> <<"processData">>
      [] OTHER -> <<>>

\* C23: a completed walk of the classification graph executed
\* classifyInput first, then the process node of the category (processMath
\* for math, processText for text, processData for data, none for any
\* other category), then enrichData once, then summarizeResults once, and
\* is at END.
C23_ClassificationOrder ==
    (graph.nodes = classificationGraph.nodes /\ wstatus = "done") =>
        /\ pointer = END
        /\ executed = <<"classifyInput">> \o ProcessNodeOf(Category(state))
                          \o <<"enrichData", "summarizeResults">>

\* A completed walk that went through processText.
C23_Witness ==
    /\ graph.nodes = classificationGraph.nodes
    /\ wstatus = "done"
    /\ state.category = "text"
    /\ "processText" \in Range(executed)
    /\ Last(executed) = "summarizeResults"

\* C24: the routing functions are free of side effects and I/O. When a
\* node with a conditional edge finishes and checkError,
\* shouldAnswerQuestion or routeByCategory is evaluated, the trace output
\* grows by the lines of the node alone, the trace depth is what it was,
\* and the state is the merge of the node's update.
C24_RoutingIsPure ==
    [][\A n \in graph.nodes :
          (Finishes(n) /\ Branching(n)) =>
              /\ console' = Trace(Trace(console, Enter(n)), Exit(n))
              /\ traceDepth' = traceDepth
              /\ \E out \in External(n) :
                    state' = Merge(state, Run(n, state, out).update)]_vars

\* C25: the MCP connection is scoped to main. When main has returned,
\* every connection that was established has been closed, on every path:
\* also when listTools fails after connect succeeded, and when a failed
\* first analysis is followed by a second one.
C25_ConnectionsClosed ==
    mainpc.at = "returned" =>
        \A c \in 1..Len(clients) : clients[c] # "open"

\* The step changed no channel outside channels: the others are still
\* there with the value they had, and no other channel appeared.
OnlyChanges(channels) ==
    /\ DOMAIN state \subseteq DOMAIN state'
    /\ DOMAIN state' \subseteq DOMAIN state \cup channels
    /\ \A c \in DOMAIN state \ channels : state'[c] = state[c]

\* C26: a node step changes only the channels present in the update the
\* node returns, every other channel keeps its value, and nothing but a
\* node step changes the state. In particular input (classification
\* graph), repoName and userQuestion (document-analysis graph) keep the
\* value they had in the initial state through every step of every walk.
C26_OnlyUpdatedChannels ==
    [][/\ \A n \in graph.nodes \ {"enrichData"} :
             Finishes(n) =>
                 \E out \in External(n) :
                     /\ Run(n, state, out).ok
                     /\ OnlyChanges(DOMAIN Run(n, state, out).update)
       /\ Finishes("enrichData") => OnlyChanges({"enrichments"})
       /\ executed' = executed => state' = state
       /\ \A c \in {"input", "repoName", "userQuestion"} :
             c \in DOMAIN state => c \in DOMAIN state' /\ state'[c] = state[c]]_vars

\* A walk of the document-analysis graph ended with the question it was
\* given, after answerQuestion and generateSummary wrote their channels.
C26_Witness ==
    /\ graph = documentAnalysisGraph
    /\ wstatus = "done"
    /\ state.userQuestion = <<"W", "h", "y", "?">>
    /\ state.repoName = "facebook/react"
    /\ {"answer", "summary"} \subseteq DOMAIN state

\* C27: whenever the external call of fetchWikiStructure fails, whatever
\* the message of the error (the empty message included), the walk goes
\* from fetchWikiStructure directly to END, so that no other node of the
\* document-analysis graph executes.
C27_StructureFailureEnds ==
    [][(Finishes("fetchWikiStructure") /\ ~Last(outcomes').ok) =>
           /\ pointer' = END
           /\ wstatus' = "done"]_vars

\* C28: in every walk of the tool-calling graph llmCall and toolNode
\* alternate strictly, starting with llmCall; the walk is at END only
\* right after an llmCall step, and then llmCall was executed once more
\* than toolNode.
C28_StrictAlternation ==
    \A w \in Runs :
        /\ \A i \in 1..Len(trace[w]) :
              trace[w][i] = IF i % 2 = 1 THEN "llmCall" ELSE "toolNode"
        /\ (status[w] = "done" \/ next[w] = END) =>
              /\ trace[w] # <<>>
              /\ Last(trace[w]) = "llmCall"
              /\ Count(trace[w], "llmCall") = Count(trace[w], "toolNode") + 1

\* A walk at END after three llmCall steps and two toolNode steps.
C28_Witness ==
    \E w \in Runs :
        /\ status[w] = "done"
        /\ next[w] = END
        /\ Count(trace[w], "llmCall") = 3
        /\ Count(trace[w], "toolNode") = 2

\* The places after i of the messages that come before the next ai
\* message of the transcript.
UntilNextAi(msgs, i) ==
    { k \in (i + 1)..Len(msgs) :
          \A j \in (i + 1)..k : msgs[j].role # "ai" }

\* Every tool call of every ai message of the transcript has exactly one
\* tool message with its id between that message and the next ai message.
Answered(msgs) ==
    \A i \in 1..Len(msgs) :
        msgs[i].role = "ai" =>
            \A c \in 1..Len(msgs[i].tool_calls) :
                Cardinality({ k \in UntilNextAi(msgs, i) :
                                  /\ msgs[k].role = "tool"
                                  /\ msgs[k].tool_call_id = msgs[i].tool_calls[c].id }) = 1

\* C29: whenever the model is called, by llmCall of the graph agent or by
\* callLlm of the functional agent, every tool call of an ai message of
\* the transcript it receives has exactly one tool result with its id,
\* after that message and before the next ai message: no tool call is
\* unanswered or answered twice.
C29_ToolCallsAnswered ==
    \A w \in Runs :
        /\ (status[w] = "running" /\ next[w] = "llmCall") => Answered(messages[w])
        /\ fpc[w] = "awaitLlm" => Answered(fMessages[w])

\* Both agents are about to call the model on a transcript that holds
\* responses with two tool calls each.
C29_Witness ==
    \E w \in Runs :
        /\ Len(script.calls) = 2
        /\ status[w] = "running" /\ next[w] = "llmCall"
        /\ CountCalling(messages[w]) >= 2
        /\ fpc[w] = "awaitLlm"
        /\ CountCalling(fMessages[w]) >= 2

\* C30: in the functional agent the tool calls of a model response are
\* all dispatched together, the next model call is made only when every
\* one of them has completed, and at that moment the response and then
\* the tool results, in the order of the tool calls whatever the order
\* in which the tasks completed, are appended to the transcript.
C30_ConcurrentToolsJoined ==
    [][\A f \in Runs :
          /\ (fpc[f] = "awaitLlm" /\ fpc'[f] = "awaitTools") =>
                /\ pending'[f] = 1..Len(modelResponse'[f].tool_calls)
                /\ toolResults'[f] = <<>>
          /\ (fpc[f] = "awaitTools" /\ fpc'[f] = "awaitLlm") =>
                LET calls == modelResponse[f].tool_calls
                    old == Len(fMessages[f])
                IN /\ pending[f] = {}
                   /\ { toolResults[f][i].p : i \in 1..Len(toolResults[f]) }
                          = 1..Len(calls)
                   /\ Len(fMessages'[f]) = old + 1 + Len(calls)
                   /\ IsPrefix(fMessages[f], fMessages'[f])
                   /\ fMessages'[f][old + 1] = modelResponse[f]
                   /\ \A i \in 1..Len(calls) :
                         /\ fMessages'[f][old + 1 + i].role = "tool"
                         /\ fMessages'[f][old + 1 + i].tool_call_id = calls[i].id
          /\ (fpc[f] = "awaitTools" /\ pending[f] # {}) =>
                /\ fLlmCalls'[f] = fLlmCalls[f]
                /\ fMessages'[f] = fMessages[f]]_vars

\* The task of the second tool call completed before the task of the
\* first, and the results were joined into the transcript.
C30_Witness ==
    /\ fpc[1] = "awaitLlm"
    /\ Len(toolResults[1]) = 2
    /\ toolResults[1][1].p = 2
    /\ Last(fMessages[1]).role = "tool"
    /\ Last(fMessages[1]).tool_call_id = modelResponse[1].tool_calls[2].id

\* C31: whatever the initial transcript, the empty one included, toolNode
\* is only executed on a transcript whose last message is an ai message
\* with at least one tool call: whenever toolNode is the next node, or
\* was the node that stopped the walk, the guard of toolNode that returns
\* an empty update is false.
C31_ToolNodeGuardNeverTaken ==
    \A w \in Runs :
        (status[w] # "idle" /\ next[w] = "toolNode") =>
            /\ messages[w] # <<>>
            /\ Last(messages[w]).role = "ai"
            /\ Len(Last(messages[w]).tool_calls) >= 1

\* A walk started from the empty transcript is about to execute toolNode
\* for the second time.
C31_Witness ==
    \E w \in Runs :
        /\ input = <<>>
        /\ status[w] = "running"
        /\ next[w] = "toolNode"
        /\ Count(trace[w], "toolNode") = 1

\* C32: runDocumentAnalysis reports success only for walks in which no
\* external call failed: when the call of fetchWikiStructure,
\* fetchWikiContents, answerQuestion or generateSummary failed, the error
\* channel of the final state is not empty.
C32_FailureIsReported ==
    (/\ graph.nodes = documentAnalysisGraph.nodes
     /\ wstatus = "done"
     /\ \E i \in 1..Len(outcomes) : ~outcomes[i].ok) =>
        ("error" \in DOMAIN state /\ state.error # "")

\* No node of the graph is on a cycle.
Acyclic(g) ==
    \A n \in g.nodes :
        n \notin ReachableFrom(g, { e[2] : e \in { x \in Successors(g) : x[1] = n } })

\* No node was executed twice, and a running walk points at a node that
\* was not executed yet.
OncePerNode ==
    /\ \A i, j \in 1..Len(executed) : executed[i] = executed[j] => i = j
    /\ nsteps <= Cardinality(graph.nodes)
    /\ wstatus = "running" => pointer \in graph.nodes \ Range(executed)

\* C33: the document-analysis graph and the classification graph have no
\* cycle, and every walk of them executes each node at most once and
\* terminates, at END or by the failure of a node, for every outcome of
\* the external calls and every routing result.
C33_WalksTerminate ==
    /\ [](Acyclic(graph) /\ OncePerNode)
    /\ <>(wstatus \in {"done", "ExecutionError"})

\* A walk of the classification graph was stopped by the failure of a
\* processing node, after a walk step.
C33_Witness ==
    /\ graph.nodes = classificationGraph.nodes
    /\ wstatus = "ExecutionError"
    /\ executed = <<"classifyInput">>
    /\ pointer \in {"processMath", "processText", "processData"}

\* C34: initMCPClient never returns a client whose connect has not
\* completed, also to a second caller whose call starts while the first
\* is still awaiting connect or listTools: a caller that holds a returned
\* client holds one that was connected when it was returned.
C34_ReturnedClientIsConnected ==
    \A c \in Callers :
        callers[c].at = "returned" =>
            /\ callers[c].client # 0
            /\ callers[c].connected

\* The global client is set and the call that constructed it is no longer
\* awaiting its connect or listTools: that call succeeded.
Initialised ==
    /\ mcpClient # 0
    /\ \A c \in Callers :
          callers[c].at \in {"connect", "listTools"} => callers[c].client # mcpClient

\* Caller c enters initMCPClient in this step.
Calls(c) == callers[c].at = "idle" /\ callers'[c].at # "idle"

\* C35: a failed initialisation is not sticky. When connect or listTools
\* fails the global client is reset to null, so that the next call of
\* initMCPClient constructs a client and connects afresh; after a
\* successful initialisation the global client never changes, no client
\* is constructed any more and every call returns that same client.
C35_FailureNotSticky ==
    [][\A c \in Callers :
          /\ (callers[c].at \in {"connect", "listTools"} /\ callers'[c].at = "idle") =>
                mcpClient' = 0
          /\ (Calls(c) /\ mcpClient = 0) =>
                /\ clients' = Append(clients, "connecting")
                /\ mcpClient' = Len(clients')
                /\ callers'[c].at = "connect"
                /\ callers'[c].client = mcpClient'
          /\ Initialised =>
                /\ mcpClient' = mcpClient
                /\ Len(clients') = Len(clients)
                /\ Calls(c) =>
                      /\ callers'[c].at = "returned"
                      /\ callers'[c].client = mcpClient]_vars

\* After a failed initialisation a second client was constructed and
\* connected, and both callers hold it.
C35_Witness ==
    /\ clients = <<"failed", "open">>
    /\ mcpClient = 2
    /\ \A c \in Callers : callers[c].at = "returned" /\ callers[c].client = 2

\* The system-role messages of a transcript, in order.
SystemMessages(msgs) == SelectSeq(msgs, LAMBDA m : m.role = "system")

\* The transcript after is the transcript before followed by model
\* responses and tool results only.
GrowsByResponses(before, after) ==
    /\ IsPrefix(before, after)
    /\ \A i \in (Len(before) + 1)..Len(after) : after[i].role \in {"ai", "tool"}

\* C36: the system prompt that llmCall and callLlm put in front of the
\* transcript for the model is never merged into the state: the
\* transcript of either agent holds no system-role message but those of
\* the caller's initial transcript, and every step leaves it alone or
\* extends it by model responses and tool results only.
C36_SystemPromptNotMerged ==
    [][\A w \in Runs :
          /\ status[w] # "idle" =>
                /\ SystemMessages(messages'[w]) = SystemMessages(input)
                /\ GrowsByResponses(messages[w], messages'[w])
          /\ fpc[w] # "idle" =>
                /\ SystemMessages(fMessages'[w]) = SystemMessages(input)
                /\ GrowsByResponses(fMessages[w], fMessages'[w])]_vars

\* Both agents called the model three times on a transcript that began
\* with a history.
C36_Witness ==
    /\ Len(input) = 3
    /\ Count(trace[1], "llmCall") = 3
    /\ fLlmCalls[1] = 3
    /\ Len(fMessages[1]) > Len(input)

\* The processing nodes of the classification graph and the category of
\* each.
ProcessingNodes == {"processMath", "processText", "processData"}

PathOf(n) ==
    CASE n = "processMath" -> "math"
      [] n = "processText" -> "text"
      [] n = "processData" -> "data"

\* C37: a processing node calls the model once and runs the tool calls
\* of the response in order, without another model call. When it
\* finishes, processed is true, path is the category of the node, and
\* response is the content of the result of the last tool call, or the
\* empty string when the response carried no tool call.
C37_ProcessingNodeResponse ==
    [][\A n \in ProcessingNodes :
          Finishes(n) =>
              LET call == Last(outcomes')
              IN /\ call.node = n
                 /\ call.ok
                 /\ Cardinality({ i \in 1..Len(outcomes') : outcomes'[i].node = n }) = 1
                 /\ state'.processed = TRUE
                 /\ state'.path = PathOf(n)
                 /\ state'.response = IF call.value = <<>> THEN ""
                                      ELSE call.value[Len(call.value)]]_vars

\* processData finished after a response with two tool calls.
C37_Witness ==
    /\ executed = <<"classifyInput", "processData">>
    /\ state.path = "data"
    /\ state.response = "25"
    /\ Last(outcomes).value = <<"5", "25">>

====
